---- MODULE Spec2Model ----
(***************************************************************************)
(* Model of the request core of yango_tech_grocery_client:                 *)
(*   - MethodRateLimiter (rate_limiter.py): per-(auth_token, endpoint)     *)
(*     sliding window guarded by one asyncio.Lock;                         *)
(*   - retry_request (utils.py): the retry loop around one request;        *)
(*   - BaseYangoClient.yango_request (base_client.py): one attempt is the  *)
(*     optional acquire followed by the HTTP call.                         *)
(* Specifications: Spec (the limiter), SpecRetry (retry_request),           *)
(* SpecClient (requests of a client beside other users of the limiter),    *)
(* SpecDict (the limiter with the keys of its dict), SpecFair and          *)
(* SpecRetryFair (the limiter and retry_request under fair scheduling),    *)
(* SpecQueue (a longer queue for the lock), SpecHandler (the responses and *)
(* the error handler under retry_request), SpecShared (several clients on  *)
(* the limiter of the module), SpecCancel (tasks cancelled inside          *)
(* acquire), SpecPages (the paging generators of client.py and             *)
(* client_prices.py) and SpecBatch (batch_items and the batched            *)
(* operations).                                                            *)
(* Time is counted in milliseconds: 1.0 s is 1000, 1.001 s is 1001.        *)
(* Code that runs between two awaits is one atomic step and takes no time; *)
(* time.time() never goes back, and asyncio.sleep(d) resumes its task at   *)
(* any time that is at least d later.  asyncio.Lock is FIFO: release hands *)
(* the lock to the first waiter, and a caller that finds waiters queues.   *)
(***************************************************************************)
EXTENDS Integers, Sequences, FiniteSets, TLC

\* ------------------------------------------------------------------ bounds
MaxCalls == 4        \* acquire calls made in one behaviour
MaxTime == 1500      \* the clock of the limiter runs stops advancing here (ms)
MaxRetryTime == 4000 \* the clock of the retry runs stops advancing here (ms)
MaxClientTime == 2000 \* the clock of the client runs stops advancing here (ms)
MaxClientCalls == 4  \* acquire calls made in a client run
MaxFairCalls == 4    \* acquire calls made in a fair run of the limiter
MaxDictCalls == 4    \* acquire calls made in a run that follows the keys
MaxQueueCalls == 5   \* acquire calls made in a run with a queue for the lock
MaxSharedCalls == 4  \* acquire calls made in a run with several clients
MaxCancelCalls == 5  \* acquire calls made in a run with cancellations
MaxPages == 3        \* page requests one generator sends
ProductsLimit == 2   \* stands for PRODUCTS_REQUEST_LIMIT (300), scaled down
PriceListsLimit == 1 \* stands for DEFAULT_REQUEST_LIMIT (100), scaled down
MaxItems == 5        \* length of the list a batched operation is called with
MaxBatchSize == 3    \* batch_size of a batched operation

\* ------------------------------------------------------- program constants
max_rps == 2         \* MethodRateLimiter(max_rps), as constructed in the tests
WindowMs == 1000     \* `>= 1.0` in clean_up_old_timestamps
WaitBaseMs == 1001   \* `1.001 - ...` in acquire
MAX_RETRIES == 3
RetryDelayMs == 1000 \* RETRY_DELAY = 1 (seconds)
ERROR_STATUSES_FOR_RETRY == {429, 500}

Tokens == {"token1", "token2"}
Endpoints == {"/endpoint/1", "/endpoint/2"}
Keys == Tokens \X Endpoints
LimiterTasks == 1..MaxCalls       \* acquire calls of a run of the limiter
FairTasks == 1..MaxFairCalls      \* acquire calls of a fair run of the limiter
DictTasks == 1..MaxDictCalls      \* acquire calls of a run that follows the keys
ClientTasks == 1..MaxClientCalls  \* acquire calls made in a client run
QueueTasks == 1..MaxQueueCalls    \* acquire calls of a run with a queue for the lock
SharedTasks == 1..MaxSharedCalls  \* acquire calls of a run with several clients
CancelTasks == 1..MaxCancelCalls  \* acquire calls of a run with cancellations
\* every acquire call of any run: one task per call
Tasks == LimiterTasks \cup FairTasks \cup DictTasks \cup ClientTasks \cup QueueTasks
             \cup SharedTasks \cup CancelTasks
Steps == {500}       \* amounts (ms) by which the clock may jump between steps
NoTime == 0 - 1      \* "no time yet" in the log of calls
Requests == {"r1", "r2"}          \* calls through retry_request
Statuses == {400, 429, 500, 503}  \* statuses an attempt may fail with
RequestNo(c) == IF c = "r1" THEN 1 ELSE 2
Values == {"payload"}             \* what a successful attempt may return
FairStatuses == {400, 429}        \* statuses an attempt fails with in the fair runs
ClientRequests == {"r1"}          \* calls of client.yango_request
OtherEndpoints == {"/endpoint/1"} \* endpoints the other users of the limiter call
ClientTokens == {"token1"}        \* auth_token of the clients that make them
ClientStatuses == {400, 429}      \* statuses a response of the server may have

VARIABLES
    now,                 \* time.time(), in ms
    request_timestamps,  \* MethodRateLimiter.request_timestamps: key -> deque (a
                         \* defaultdict: a key never read holds an empty deque)
    lock_locked,         \* asyncio.Lock._locked
    lock_waiters,        \* asyncio.Lock._waiters, FIFO
    pc,                  \* where each acquire call stands
    wake_at,             \* deadline of the asyncio.sleep of a sleeping call
    call,                \* per call: its arguments and what it observed
    r_pc,                \* where each call through retry_request stands
    retries,             \* the local `retries` of wrapper
    invoked,             \* how many times wrapper has invoked func
    r_log,               \* the outcomes of the attempts made so far, in order
    r_wake,              \* deadline of asyncio.sleep(RETRY_DELAY)
    r_out,               \* what wrapper returned or raised
    client,              \* per request: the client's should_use_rate_limiter and
                         \* auth_token, and the endpoint of the request
    c_phase,             \* where the current attempt of yango_request stands
    c_started,           \* when the current attempt was started by wrapper
    c_acq,               \* the acquire calls the request has made, in order
    c_http,              \* the HTTP calls the request has issued, in order
    rt_keys,             \* the keys request_timestamps holds (followed in the
                         \* runs of SpecDict only)
    error_handler,       \* per request: the client's error_handler
    resp_log,            \* per request: what process_yango_response did, in order
    by_client,           \* per acquire call: the client object whose
                         \* yango_request made it
    g_pc,                \* where the generator get_..._updates stands
    g_which,             \* which of the two generators it is
    g_arg,               \* the cursor it was called with
    g_cursor,            \* its local `cursor`
    g_requests,          \* the cursors of the page requests sent, in order
    g_pages,             \* the responses received, in order
    g_todo,              \* the items of the current page not yet yielded
    g_yielded,           \* what the generator has yielded, in order
    g_error,             \* the status of the error that ended the iteration
    b_pc,                \* where a batched operation stands
    b_items,             \* the list it was called with
    b_size,              \* the batch_size it passes to batch_items
    b_i,                 \* `i` of the loop in batch_items
    b_sent,              \* the slices sent, in order
    b_error              \* the status of the error that ended the operation

lvars == <<request_timestamps, lock_locked, lock_waiters, pc, wake_at, call>>
rvars == <<r_pc, retries, invoked, r_log, r_wake, r_out>>
cvars == <<client, c_phase, c_started, c_acq, c_http>>
hvars == <<error_handler, resp_log>>
gvars == <<g_pc, g_which, g_arg, g_cursor, g_requests, g_pages, g_todo, g_yielded, g_error>>
bvars == <<b_pc, b_items, b_size, b_i, b_sent, b_error>>
xvars == <<hvars, by_client, gvars, bvars>>
ovars == <<cvars, rt_keys, xvars>>
vars == <<now, lvars, rvars, cvars, rt_keys, xvars>>

\* ------------------------------------------------------------ rate limiter

\* faulty variant: the token is left out of the key
KeyOfEndpointOnly(auth_token, endpoint) == <<"token1", endpoint>>

\* key = (auth_token, endpoint)
KeyOf(auth_token, endpoint) == <<auth_token, endpoint>>

\* timestamp - self.request_timestamps[key][0]
get_difference_with_first_request(rt, key, timestamp) == timestamp - Head(rt[key])

\* faulty variants: a timestamp exactly one second old is kept; nothing is
\* removed; `if` in the place of `while`
RECURSIVE PopExpiredStrict(_, _)
PopExpiredStrict(dq, t) ==
    IF dq # <<>> /\ t - Head(dq) > WindowMs THEN PopExpiredStrict(Tail(dq), t) ELSE dq
PopExpiredNever(dq, t) == dq
PopExpiredOnce(dq, t) == IF dq # <<>> /\ t - Head(dq) >= WindowMs THEN Tail(dq) ELSE dq

\* the while loop of clean_up_old_timestamps on one deque
RECURSIVE PopExpired(_, _)
PopExpired(dq, t) ==
    IF dq # <<>> /\ t - Head(dq) >= WindowMs THEN PopExpired(Tail(dq), t) ELSE dq

clean_up_old_timestamps(rt, key, t) ==
    [rt EXCEPT ![key] = PopExpired(@, t)]

\* faulty variant: the deques of all keys are purged
get_current_rps_dict_all(rt, endpoint, auth_token, t) ==
    [k \in DOMAIN rt |-> PopExpired(rt[k], t)]

\* the value get_current_rps returns, and the dict it leaves behind
get_current_rps_dict(rt, endpoint, auth_token, t) ==
    clean_up_old_timestamps(rt, KeyOf(auth_token, endpoint), t)

get_current_rps(rt, endpoint, auth_token, t) ==
    Len(get_current_rps_dict(rt, endpoint, auth_token, t)[KeyOf(auth_token, endpoint)])

\* faulty variants: the capacity check is off by one, either way; the check
\* of a limiter constructed with max_rps = 0
WindowFullLate(current_rps) == current_rps > max_rps
WindowFullZero(current_rps) == current_rps >= 0
WindowFullEarly(current_rps) == current_rps >= max_rps - 1

\* `if current_rps >= self.max_rps`
WindowFull(current_rps) == current_rps >= max_rps

\* faulty variant: the wait is counted from the call, not from the oldest admission
WaitFromCallTime(rt, key, t) == WaitBaseMs

\* `wait_time = 1.001 - self.get_difference_with_first_request(key, time.time())`
WaitTime(rt, key, t) == WaitBaseMs - get_difference_with_first_request(rt, key, t)

\* faulty variant: appendleft in the place of append
AppendLeftNow(rt, key, t) == [rt EXCEPT ![key] = <<t>> \o @]

\* `self.request_timestamps[key].append(time.time())`
AppendNow(rt, key, t) == [rt EXCEPT ![key] = Append(@, t)]

\* `call` is a log kept beside the program: what each call was given, when it was
\* made, decided and admitted, and what an observer of the log saw at its decision.
\* The admissions made so far, read off that log (not off the deques):
Admissions(k) == {u \in Tasks : call[u].key = k /\ call[u].recorded # NoTime}

\* how many admissions of k were recorded in the interval (lo, hi]
CountIn(k, lo, hi) ==
    Cardinality({u \in Admissions(k) : call[u].recorded > lo /\ call[u].recorded <= hi})

Min(S) == CHOOSE x \in S : \A y \in S : x <= y

\* the oldest admission of k younger than one second at time t (NoTime if none)
OldestRecent(k, t) ==
    LET R == {call[u].recorded : u \in {v \in Admissions(k) : call[v].recorded > t - WindowMs}}
    IN  IF R = {} THEN NoTime ELSE Min(R)

\* no admission of k in the second that ends now
Quiet(k) == now >= WindowMs /\ \A u \in Admissions(k) : call[u].recorded <= now - WindowMs

\* faulty variant: the lock is taken without looking at its state
LockIgnored == TRUE

\* asyncio.Lock.acquire takes the lock at once only if it is free and nobody queues
LockFree == ~lock_locked /\ lock_waiters = <<>>

\* faulty variant: a new waiter goes to the head of the queue
EnqueueFirst(waiters, t) == <<t>> \o waiters

\* asyncio.Lock.acquire of a caller that has to wait: `self._waiters.append(fut)`
Enqueue(waiters, t) == Append(waiters, t)

\* faulty variant: leaving `async with` does not release the lock
LockKeptOnExit == TRUE

\* asyncio.Lock._locked once `async with self._lock` has been left
LockOnExit == FALSE

\* Lines 38-49 of acquire, run by task t holding the lock, up to the sleep or
\* to the release at the end of `async with`.
Body(t, endpoint, auth_token, called_at, queued, quiet) ==
    LET key == KeyOf(auth_token, endpoint)
        rt1 == get_current_rps_dict(request_timestamps, endpoint, auth_token, now)
        current_rps == get_current_rps(request_timestamps, endpoint, auth_token, now)
        full == WindowFull(current_rps)
        index_error == full /\ rt1[key] = <<>>  \* `[0]` of an empty deque
        wait_time == IF full /\ ~index_error THEN WaitTime(rt1, key, now) ELSE 0
        rec == [key |-> <<auth_token, endpoint>>,
                endpoint |-> endpoint, auth_token |-> auth_token,
                called_at |-> called_at, queued |-> queued, quiet |-> quiet,
                decided_at |-> now, found |-> current_rps,
                recent |-> CountIn(<<auth_token, endpoint>>, now - WindowMs, now),
                oldest_recent |-> OldestRecent(<<auth_token, endpoint>>, now),
                wait_time |-> wait_time, recorded |-> NoTime, after |-> 0]
    IN  IF index_error
        THEN \* IndexError leaves `async with`, which releases the lock
             /\ request_timestamps' = rt1
             /\ lock_locked' = LockOnExit
             /\ pc' = [pc EXCEPT ![t] = "raised"]
             /\ wake_at' = wake_at
             /\ call' = [call EXCEPT ![t] = rec]
        ELSE IF full /\ wait_time > 0
        THEN /\ request_timestamps' = rt1
             /\ lock_locked' = TRUE
             /\ pc' = [pc EXCEPT ![t] = "sleeping"]
             /\ wake_at' = [wake_at EXCEPT ![t] = now + wait_time]
             /\ call' = [call EXCEPT ![t] = rec]
        ELSE /\ request_timestamps' = AppendNow(rt1, key, now)
             /\ lock_locked' = LockOnExit
             /\ pc' = [pc EXCEPT ![t] = "done"]
             /\ wake_at' = wake_at
             /\ call' = [call EXCEPT ![t] =
                            [rec EXCEPT !.recorded = now,
                                        !.after = Len(AppendNow(rt1, key, now)[key])]]

NoCall == [key |-> <<"", "">>, endpoint |-> "", auth_token |-> "",
           called_at |-> NoTime, queued |-> FALSE, quiet |-> FALSE,
           decided_at |-> NoTime, found |-> 0, recent |-> 0, oldest_recent |-> NoTime,
           wait_time |-> 0, recorded |-> NoTime, after |-> 0]

\* calls are numbered in the order in which they are made
NextCall(t) == pc[t] = "idle" /\ \A u \in Tasks : u < t => pc[u] # "idle"

\* acquire(endpoint, auth_token) called while the lock is free: runs to the
\* sleep or to the end without yielding
AcquireFree(t, endpoint, auth_token) ==
    /\ NextCall(t)
    /\ LockFree
    /\ Body(t, endpoint, auth_token, now, FALSE, Quiet(<<auth_token, endpoint>>))
    /\ UNCHANGED <<now, lock_waiters, rvars>>

\* acquire(endpoint, auth_token) called while the lock is held or queued for
AcquireQueued(t, endpoint, auth_token) ==
    /\ NextCall(t)
    /\ ~LockFree
    /\ lock_waiters' = Enqueue(lock_waiters, t)
    /\ pc' = [pc EXCEPT ![t] = "lock_wait"]
    /\ call' = [call EXCEPT ![t] =
                  [NoCall EXCEPT !.key = <<auth_token, endpoint>>,
                                 !.endpoint = endpoint, !.auth_token = auth_token,
                                 !.called_at = now, !.queued = TRUE,
                                 !.quiet = Quiet(<<auth_token, endpoint>>)]]
    /\ UNCHANGED <<now, request_timestamps, lock_locked, wake_at, rvars>>

\* the first waiter of the released lock takes it and runs the body
LockWake(t) ==
    /\ pc[t] = "lock_wait"
    /\ ~lock_locked
    /\ lock_waiters # <<>> /\ Head(lock_waiters) = t
    /\ lock_waiters' = Tail(lock_waiters)
    /\ Body(t, call[t].endpoint, call[t].auth_token, call[t].called_at, TRUE, call[t].quiet)
    /\ UNCHANGED <<now, rvars>>

\* asyncio.sleep(wait_time) is over: line 49, then the lock is released
SleepWake(t) ==
    /\ pc[t] = "sleeping"
    /\ now >= wake_at[t]
    /\ request_timestamps' =
           AppendNow(request_timestamps, KeyOf(call[t].auth_token, call[t].endpoint), now)
    /\ lock_locked' = LockOnExit
    /\ pc' = [pc EXCEPT ![t] = "done"]
    /\ call' = [call EXCEPT ![t].recorded = now,
                            ![t].after =
                                Len(request_timestamps'[KeyOf(call[t].auth_token, call[t].endpoint)])]
    /\ UNCHANGED <<now, lock_waiters, wake_at, rvars>>

\* time goes on while a call sleeps in acquire: the clock reaches its deadline
SleepElapses ==
    /\ \E t \in Tasks :
          /\ pc[t] = "sleeping" /\ wake_at[t] > now
          /\ now' = wake_at[t]
    /\ UNCHANGED <<lvars, rvars>>

\* faulty variant: the cancelled waiter stays in the queue
KeepPlace(waiters, t) == waiters

\* Lock.acquire() of a cancelled waiter takes its future out of the queue
GiveUpPlace(waiters, t) == SelectSeq(waiters, LAMBDA u : u # t)

\* the task of a call that waits for the lock in `async with self._lock` is
\* cancelled: CancelledError leaves acquire, the next waiter is the first
CancelWaiting(t) ==
    /\ pc[t] = "lock_wait"
    /\ lock_waiters' = GiveUpPlace(lock_waiters, t)
    /\ pc' = [pc EXCEPT ![t] = "cancelled"]
    /\ UNCHANGED <<now, request_timestamps, lock_locked, wake_at, call, rvars>>

\* the task of a call that sleeps in line 47 is cancelled: CancelledError leaves
\* `async with`, which releases the lock; line 49 is not reached
CancelSleeping(t) ==
    /\ pc[t] = "sleeping"
    /\ lock_locked' = LockOnExit
    /\ pc' = [pc EXCEPT ![t] = "cancelled"]
    /\ UNCHANGED <<now, request_timestamps, lock_waiters, wake_at, call, rvars>>

\* get_current_rps called from outside acquire (as the tests do)
GetCurrentRps(endpoint, auth_token) ==
    /\ request_timestamps' =
           get_current_rps_dict(request_timestamps, endpoint, auth_token, now)
    /\ UNCHANGED <<now, lock_locked, lock_waiters, pc, wake_at, call, rvars>>

\* the clock advances: by a step, or exactly to the deadline of the sleeper
Tick ==
    /\ \E d \in Steps \cup {wake_at[t] - now : t \in {u \in Tasks : pc[u] = "sleeping"}} :
          /\ d > 0
          /\ now + d <= MaxTime
          /\ now' = now + d
    /\ UNCHANGED <<lvars, rvars>>

\* `self.request_timestamps[key]`: a defaultdict creates the entry of a key
\* that is read for the first time
Touch(key) == rt_keys' = rt_keys \cup {key}

\* ------------------------------------------------------------ retry_request

\* what one attempt (one `await func(*args, **kwargs)`) ends with
Ok(v) == [kind |-> "value", status |-> 200, value |-> v, attempt |-> 0]
Err(status) == [kind |-> "YangoRequestError", status |-> status, value |-> "", attempt |-> 0]
NoOutcome == [kind |-> "none", status |-> 0, value |-> "", attempt |-> 0]

\* faulty variants: every status is retried; 500 is not retried; the budget
\* is not looked at
ShouldRetryAnyStatus(status, n) == n <= MAX_RETRIES
ShouldRetryForever(status, n) == status \in ERROR_STATUSES_FOR_RETRY
ShouldRetryOnly429(status, n) == status = 429 /\ n <= MAX_RETRIES

\* `e.status in ERROR_STATUSES_FOR_RETRY and retries <= MAX_RETRIES`
ShouldRetry(status, n) == status \in ERROR_STATUSES_FOR_RETRY /\ n <= MAX_RETRIES

\* faulty variant: the error of the first attempt is raised in the end
RaisedFirst(log, e) == IF log # <<>> THEN log[1] ELSE e

\* `raise e`: e is the exception caught in this iteration of the loop; log
\* holds what the earlier attempts of the call ended with
Raised(log, e) == e

\* faulty variant: one counter for all the calls
CountRetryShared(rs, c) == [d \in DOMAIN rs |-> rs[d] + 1]

\* `retries += 1` on the local variable of the call
CountRetry(rs, c) == [rs EXCEPT ![c] = @ + 1]

\* faulty variant: `continue` without the sleep
RetryDeadlineAtOnce(t) == t

\* `await asyncio.sleep(RETRY_DELAY)` begun at time t is over at this time or later
RetryDeadline(t) == t + RetryDelayMs

\* wrapper is called: retries = 0, and the first attempt starts at once
RequestCall(c) ==
    /\ r_pc[c] = "idle"
    /\ retries' = [retries EXCEPT ![c] = 0]
    /\ invoked' = [invoked EXCEPT ![c] = @ + 1]
    /\ r_pc' = [r_pc EXCEPT ![c] = "attempting"]
    /\ UNCHANGED <<now, lvars, r_log, r_wake, r_out>>

\* `return await func(*args, **kwargs)`: the attempt succeeds with value v
AttemptReturns(c, v) ==
    /\ r_pc[c] = "attempting"
    /\ r_log' = [r_log EXCEPT ![c] = Append(@, [Ok(v) EXCEPT !.attempt = invoked[c]])]
    /\ r_out' = [r_out EXCEPT ![c] = [Ok(v) EXCEPT !.attempt = invoked[c]]]
    /\ r_pc' = [r_pc EXCEPT ![c] = "returned"]
    /\ UNCHANGED <<now, lvars, retries, invoked, r_wake>>

\* the attempt raises YangoRequestError with this status: lines 22-30
AttemptRaises(c, status) ==
    /\ r_pc[c] = "attempting"
    /\ r_log' = [r_log EXCEPT ![c] = Append(@, [Err(status) EXCEPT !.attempt = invoked[c]])]
    /\ IF ShouldRetry(status, retries[c])
       THEN /\ retries' = CountRetry(retries, c)
            /\ r_wake' = [r_wake EXCEPT ![c] = RetryDeadline(now)]
            /\ r_pc' = [r_pc EXCEPT ![c] = "delay"]
            /\ UNCHANGED r_out
       ELSE /\ r_out' = [r_out EXCEPT ![c] =
                             Raised(r_log[c], [Err(status) EXCEPT !.attempt = invoked[c]])]
            /\ r_pc' = [r_pc EXCEPT ![c] = "raised"]
            /\ UNCHANGED <<retries, r_wake>>
    /\ UNCHANGED <<now, lvars, invoked>>

\* asyncio.sleep(RETRY_DELAY) is over: `continue`, the next attempt starts
DelayOver(c) ==
    /\ r_pc[c] = "delay"
    /\ now >= r_wake[c]
    /\ invoked' = [invoked EXCEPT ![c] = @ + 1]
    /\ r_pc' = [r_pc EXCEPT ![c] = "attempting"]
    /\ UNCHANGED <<now, lvars, retries, r_log, r_wake, r_out>>

\* the clock advances: by a step, or exactly to the end of a retry delay
RetryTick ==
    /\ \E d \in Steps \cup {r_wake[c] - now : c \in {x \in Requests : r_pc[x] = "delay"}} :
          /\ d > 0
          /\ now + d <= MaxRetryTime
          /\ now' = now + d
    /\ UNCHANGED <<lvars, rvars>>

\* time goes on while a call sleeps in its retry delay: the clock reaches the
\* earliest pending deadline, however late that is
DelayElapses ==
    /\ \E c \in Requests :
          /\ r_pc[c] = "delay" /\ r_wake[c] > now
          /\ \A d \in Requests : r_pc[d] = "delay" => r_wake[d] >= r_wake[c]
          /\ now' = r_wake[c]
    /\ UNCHANGED <<lvars, rvars>>

\* the attempt in progress ends, one way or the other
AttemptEnds(c) ==
    \/ \E v \in Values : AttemptReturns(c, v)
    \/ \E status \in FairStatuses : AttemptRaises(c, status)

\* ------------------------------------- BaseYangoClient.yango_request

\* the client of a request that has not been made
NoClient == [should_use_rate_limiter |-> FALSE, auth_token |-> "", endpoint |-> ""]

\* faulty variants: only the first attempt goes through the limiter; every
\* request goes through the limiter
UsesLimiterOnFirstAttempt(c) == client[c].should_use_rate_limiter /\ invoked[c] = 1
UsesLimiterAlways(c) == TRUE

\* `if self.should_use_rate_limiter:`
UsesLimiter(c) == client[c].should_use_rate_limiter

\* the acquire call the current attempt is in (the last one the request made)
CurrentAcquire(c) == c_acq[c][Len(c_acq[c])]

\* faulty variant: acquire is called but not awaited
AcquireReturnedAtOnce(c) == TRUE

\* `await yango_rate_limiter.acquire(...)` has returned
AcquireReturned(c) == pc[CurrentAcquire(c)] = "done"

\* requests are numbered in the order in which they are made
NextRequest(c) ==
    \A d \in ClientRequests : RequestNo(d) < RequestNo(c) => r_pc[d] # "idle"

\* client.yango_request(endpoint, data) is called on a client constructed with
\* this auth_token and should_use_rate_limiter: wrapper invokes the function
ClientRequest(c, flag, auth_token, endpoint) ==
    /\ NextRequest(c)
    /\ RequestCall(c)
    /\ client' = [client EXCEPT ![c] = [should_use_rate_limiter |-> flag,
                                         auth_token |-> auth_token,
                                         endpoint |-> endpoint]]
    /\ c_phase' = [c_phase EXCEPT ![c] = "entered"]
    /\ c_started' = [c_started EXCEPT ![c] = now]
    /\ UNCHANGED <<c_acq, c_http, rt_keys, xvars>>

\* `await yango_rate_limiter.acquire(endpoint, auth_token=self.auth_token)`,
\* the lock being free
ClientAcquireFree(c, t) ==
    /\ r_pc[c] = "attempting" /\ c_phase[c] = "entered"
    /\ UsesLimiter(c)
    /\ AcquireFree(t, client[c].endpoint, client[c].auth_token)
    /\ c_phase' = [c_phase EXCEPT ![c] = "acquiring"]
    /\ c_acq' = [c_acq EXCEPT ![c] = Append(@, t)]
    /\ UNCHANGED <<client, c_started, c_http, rt_keys, xvars>>

\* the same, the lock being held or queued for
ClientAcquireQueued(c, t) ==
    /\ r_pc[c] = "attempting" /\ c_phase[c] = "entered"
    /\ UsesLimiter(c)
    /\ AcquireQueued(t, client[c].endpoint, client[c].auth_token)
    /\ c_phase' = [c_phase EXCEPT ![c] = "acquiring"]
    /\ c_acq' = [c_acq EXCEPT ![c] = Append(@, t)]
    /\ UNCHANGED <<client, c_started, c_http, rt_keys, xvars>>

\* session.post(...) is issued: at once when the limiter is not used, else
\* when acquire has returned
ClientHttp(c) ==
    /\ r_pc[c] = "attempting"
    /\ \/ c_phase[c] = "entered" /\ ~UsesLimiter(c)
       \/ c_phase[c] = "acquiring" /\ AcquireReturned(c)
    /\ c_phase' = [c_phase EXCEPT ![c] = "http"]
    /\ c_http' = [c_http EXCEPT ![c] =
                     Append(@, [attempt |-> invoked[c], started |-> c_started[c],
                                issued |-> now])]
    /\ UNCHANGED <<now, lvars, rvars, client, c_started, c_acq, rt_keys, xvars>>

\* the response has a 2xx status: process_yango_response returns its JSON
ClientResponseOk(c, v) ==
    /\ c_phase[c] = "http"
    /\ AttemptReturns(c, v)
    /\ c_phase' = [c_phase EXCEPT ![c] = "none"]
    /\ UNCHANGED <<client, c_started, c_acq, c_http, rt_keys, xvars>>

\* the response has another status: process_yango_response raises
\* YangoRequestError, which wrapper catches
ClientResponseError(c, status) ==
    /\ c_phase[c] = "http"
    /\ AttemptRaises(c, status)
    /\ c_phase' = [c_phase EXCEPT ![c] = "none"]
    /\ UNCHANGED <<client, c_started, c_acq, c_http, rt_keys, xvars>>

\* the retry delay is over: wrapper invokes the function again
ClientRetry(c) ==
    /\ DelayOver(c)
    /\ c_phase' = [c_phase EXCEPT ![c] = "entered"]
    /\ c_started' = [c_started EXCEPT ![c] = now]
    /\ UNCHANGED <<client, c_acq, c_http, rt_keys, xvars>>

\* the clock advances: by a step, or exactly to the deadline of a sleeper;
\* not between the call of yango_request and its first await
ClientTick ==
    /\ \A c \in ClientRequests : c_phase[c] # "entered"
    /\ \E d \in Steps \cup {wake_at[t] - now : t \in {u \in Tasks : pc[u] = "sleeping"}}
                    \cup {r_wake[c] - now : c \in {x \in ClientRequests : r_pc[x] = "delay"}} :
          /\ d > 0
          /\ now + d <= MaxClientTime
          /\ now' = now + d
    /\ UNCHANGED <<lvars, rvars, cvars, rt_keys, xvars>>

\* ----------------------- BaseYangoClient.process_yango_response under wrapper

\* error_handler: None, the base class YangoErrorHandler (whose
\* process_yango_error raises NotImplementedError), a subclass that returns
Handlers == {"none", "base", "custom"}

\* statuses of a response; what session.post can raise; what resp.json() does
ResponseStatuses == {199, 200, 299, 300, 429, 500}
TransportErrors == {"ClientConnectionError", "TimeoutError"}
JsonResults == {"ok", "ContentTypeError"}

\* an exception of this kind that is not a YangoRequestError
Exc(kind) == [kind |-> kind, status |-> 0, value |-> "", attempt |-> 0]

\* faulty variant: `except Exception`
CaughtAny(kind) == TRUE

\* `except (YangoBadRequest, YangoRequestError) as e:`, YangoBadRequest being
\* a subclass of YangoRequestError where it exists
Caught(kind) == kind = "YangoRequestError"

\* an exception the except clause does not match leaves wrapper as it is
AttemptPropagates(c, kind) ==
    /\ r_pc[c] = "attempting"
    /\ r_log' = [r_log EXCEPT ![c] = Append(@, [Exc(kind) EXCEPT !.attempt = invoked[c]])]
    /\ r_out' = [r_out EXCEPT ![c] = [Exc(kind) EXCEPT !.attempt = invoked[c]]]
    /\ r_pc' = [r_pc EXCEPT ![c] = "raised"]
    /\ UNCHANGED <<now, lvars, retries, invoked, r_wake>>

\* func raises an exception of this kind, after a response of this status if
\* there was one
AttemptThrows(c, kind, status) ==
    IF Caught(kind) THEN AttemptRaises(c, status) ELSE AttemptPropagates(c, kind)

\* yango_request is called on a client constructed with this error_handler
HandlerRequest(c, h) ==
    /\ RequestCall(c)
    /\ error_handler' = [error_handler EXCEPT ![c] = h]
    /\ UNCHANGED resp_log

\* session.post raises: there is no response
TransportFails(c, kind) ==
    /\ AttemptThrows(c, kind, 0)
    /\ UNCHANGED hvars

\* faulty variant: 300 counts as a success
IsSuccessUpTo300(status) == 200 <= status /\ status <= 300

\* `if 200 <= status < 300:`
IsSuccess(status) == 200 <= status /\ status < 300

\* process_yango_error of this handler raises
HandlerRaises(h) == h = "base"

Event(c, name, status) == [ev |-> name, attempt |-> invoked[c], status |-> status]

\* process_yango_response(resp, payload) on a response of this status
ProcessResponse(c, status, json) ==
    /\ r_pc[c] = "attempting"
    /\ IF IsSuccess(status)
       THEN /\ resp_log' = [resp_log EXCEPT ![c] = Append(@, Event(c, "response", status))]
            /\ IF json = "ok"
               THEN \E v \in Values : AttemptReturns(c, v)
               ELSE AttemptThrows(c, json, status)
       ELSE IF error_handler[c] # "none"
            THEN IF HandlerRaises(error_handler[c])
                 THEN /\ resp_log' = [resp_log EXCEPT ![c] =
                                         @ \o <<Event(c, "response", status),
                                                Event(c, "handler", status)>>]
                      /\ AttemptThrows(c, "NotImplementedError", status)
                 ELSE /\ resp_log' = [resp_log EXCEPT ![c] =
                                         @ \o <<Event(c, "response", status),
                                                Event(c, "handler", status),
                                                Event(c, "raise", status)>>]
                      /\ AttemptThrows(c, "YangoRequestError", status)
            ELSE /\ resp_log' = [resp_log EXCEPT ![c] =
                                    @ \o <<Event(c, "response", status),
                                           Event(c, "raise", status)>>]
                 /\ AttemptThrows(c, "YangoRequestError", status)
    /\ UNCHANGED error_handler

\* ------------------------------ several clients, the one yango_rate_limiter

\* client objects of one process, all with should_use_rate_limiter=True: two
\* of the same auth_token on different domains, one of another auth_token
ClientObjects ==
    [A |-> [domain |-> "https://a.example", auth_token |-> "token1"],
     B |-> [domain |-> "https://b.example", auth_token |-> "token1"],
     C |-> [domain |-> "https://a.example", auth_token |-> "token2"]]
ClientIds == DOMAIN ClientObjects

\* `url = self.domain + endpoint`
Url(k, endpoint) == ClientObjects[k].domain \o endpoint

\* faulty variant: the limiter told the clients of different domains apart
AuthTokenPerDomain(k) ==
    IF ClientObjects[k].domain = "https://a.example" THEN "token1" ELSE "token2"

\* `auth_token=self.auth_token`
AuthTokenOf(k) == ClientObjects[k].auth_token

\* yango_request of client k: `await yango_rate_limiter.acquire(endpoint,
\* auth_token=self.auth_token)` on the limiter of the module
SharedAcquireFree(k, t, endpoint) ==
    /\ AcquireFree(t, endpoint, AuthTokenOf(k))
    /\ by_client' = [by_client EXCEPT ![t] = k]

SharedAcquireQueued(k, t, endpoint) ==
    /\ AcquireQueued(t, endpoint, AuthTokenOf(k))
    /\ by_client' = [by_client EXCEPT ![t] = k]

\* ------------------- get_product_updates / get_price_list_updates (paging)

Generators == {"products", "pricelists"}
CallerCursors == {"None", "c0"}   \* the cursor argument (None by default)
ServerCursors == {"c1", "c2"}     \* response['cursor']
PageStatuses == {400, 500}        \* statuses yango_request may raise with

\* 'limit' of the request
RequestLimit(which) == IF which = "products" THEN ProductsLimit ELSE PriceListsLimit

\* the items of a response: the server numbers them on
ItemsFrom(n, len) == [i \in 1..len |-> n + i]
RECURSIVE Received(_)
Received(pages) ==
    IF pages = <<>> THEN <<>> ELSE Received(SubSeq(pages, 1, Len(pages) - 1))
                                      \o pages[Len(pages)].items

\* from_dict(YangoProductData, product) / from_dict(YangoPriceListData, price_list)
from_dict(which, item) ==
    [class |-> IF which = "products" THEN "YangoProductData" ELSE "YangoPriceListData",
     data |-> item]

\* faulty variant: a full page ends the iteration too
PageIsLastOrFull(n, limit) == n <= limit

\* `if len(products) < PRODUCTS_REQUEST_LIMIT: return`
PageIsLast(n, limit) == n < limit

\* the generator is created with this cursor and its first item is asked for
GenStart(which, cursor) ==
    /\ g_pc = "idle"
    /\ g_pc' = "request"
    /\ g_which' = which
    /\ g_arg' = cursor
    /\ g_cursor' = cursor
    /\ UNCHANGED <<g_requests, g_pages, g_todo, g_yielded, g_error>>

\* `data = {'cursor': cursor, 'limit': ...}; await self.yango_request(...)`
GenRequest ==
    /\ g_pc = "request"
    /\ Len(g_requests) < MaxPages
    /\ g_requests' = Append(g_requests, g_cursor)
    /\ g_pc' = "waiting"
    /\ UNCHANGED <<g_which, g_arg, g_cursor, g_pages, g_todo, g_yielded, g_error>>

\* the response arrives: `products = response['products']`,
\* `cursor = response['cursor']`
GenResponse(len, cursor) ==
    /\ g_pc = "waiting"
    /\ LET items == ItemsFrom(Len(Received(g_pages)), len) IN
          /\ g_pages' = Append(g_pages, [items |-> items, cursor |-> cursor])
          /\ g_todo' = items
    /\ g_cursor' = cursor
    /\ g_pc' = "yielding"
    /\ UNCHANGED <<g_which, g_arg, g_requests, g_yielded, g_error>>

\* yango_request raises: the exception leaves the generator
GenFails(status) ==
    /\ g_pc = "waiting"
    /\ g_error' = status
    /\ g_pc' = "raised"
    /\ UNCHANGED <<g_which, g_arg, g_cursor, g_requests, g_pages, g_todo, g_yielded>>

\* `for product in products: yield from_dict(...)`, one item
GenYield ==
    /\ g_pc = "yielding" /\ g_todo # <<>>
    /\ g_yielded' = Append(g_yielded, from_dict(g_which, Head(g_todo)))
    /\ g_todo' = Tail(g_todo)
    /\ UNCHANGED <<g_pc, g_which, g_arg, g_cursor, g_requests, g_pages, g_error>>

\* the loop over the page is over: return after a short page, else go round
GenPageDone ==
    /\ g_pc = "yielding" /\ g_todo = <<>>
    /\ g_pc' = IF PageIsLast(Len(g_pages[Len(g_pages)].items), RequestLimit(g_which))
               THEN "done" ELSE "request"
    /\ UNCHANGED <<g_which, g_arg, g_cursor, g_requests, g_pages, g_todo, g_yielded, g_error>>

\* ------------------------- batch_items and the operations that send batches

Items == {"x", "y"}
ItemLists == UNION {[1..n -> Items] : n \in 0..MaxItems}
BatchSizes == 1..MaxBatchSize
BatchStatuses == {400, 500}       \* statuses yango_request may raise with

\* faulty variant: the slice stops one item early
SliceShort(items, i, batch_size) ==
    SubSeq(items, i + 1, IF i + batch_size - 1 < Len(items)
                         THEN i + batch_size - 1 ELSE Len(items))

\* items[i : i + batch_size], i counted from 0
Slice(items, i, batch_size) ==
    SubSeq(items, i + 1, IF i + batch_size < Len(items)
                         THEN i + batch_size ELSE Len(items))

\* `for i in range(i, len(items), batch_size): yield items[i : i + batch_size]`
RECURSIVE BatchesFrom(_, _, _)
BatchesFrom(items, i, batch_size) ==
    IF i >= Len(items) THEN <<>>
    ELSE <<Slice(items, i, batch_size)>> \o BatchesFrom(items, i + batch_size, batch_size)

\* batch_items(items, batch_size), all that it yields
batch_items(items, batch_size) == BatchesFrom(items, 0, batch_size)

\* create_products(items) and the like: the loop over batch_items starts
BatchCall(items, batch_size) ==
    /\ b_pc = "idle"
    /\ b_pc' = "loop"
    /\ b_items' = items
    /\ b_size' = batch_size
    /\ b_i' = 0
    /\ UNCHANGED <<b_sent, b_error>>

\* the next slice is yielded and its request is sent
BatchSend ==
    /\ b_pc = "loop" /\ b_i < Len(b_items)
    /\ b_sent' = Append(b_sent, Slice(b_items, b_i, b_size))
    /\ b_i' = b_i + b_size
    /\ b_pc' = "waiting"
    /\ UNCHANGED <<b_items, b_size, b_error>>

\* range() is exhausted: the operation returns
BatchEnd ==
    /\ b_pc = "loop" /\ b_i >= Len(b_items)
    /\ b_pc' = "done"
    /\ UNCHANGED <<b_items, b_size, b_i, b_sent, b_error>>

\* yango_request returns: the loop goes round
BatchOk ==
    /\ b_pc = "waiting"
    /\ b_pc' = "loop"
    /\ UNCHANGED <<b_items, b_size, b_i, b_sent, b_error>>

\* yango_request raises: the exception leaves the operation
BatchFails(status) ==
    /\ b_pc = "waiting"
    /\ b_pc' = "raised"
    /\ b_error' = status
    /\ UNCHANGED <<b_items, b_size, b_i, b_sent>>


Init ==
    /\ now = 0
    /\ request_timestamps = [k \in Keys |-> <<>>]
    /\ lock_locked = FALSE
    /\ lock_waiters = <<>>
    /\ pc = [t \in Tasks |-> "idle"]
    /\ wake_at = [t \in Tasks |-> 0]
    /\ call = [t \in Tasks |-> NoCall]
    /\ r_pc = [c \in Requests |-> "idle"]
    /\ retries = [c \in Requests |-> 0]
    /\ invoked = [c \in Requests |-> 0]
    /\ r_log = [c \in Requests |-> <<>>]
    /\ r_wake = [c \in Requests |-> 0]
    /\ r_out = [c \in Requests |-> NoOutcome]
    /\ client = [c \in Requests |-> NoClient]
    /\ c_phase = [c \in Requests |-> "none"]
    /\ c_started = [c \in Requests |-> NoTime]
    /\ c_acq = [c \in Requests |-> <<>>]
    /\ c_http = [c \in Requests |-> <<>>]
    /\ rt_keys = {}
    /\ error_handler = [c \in Requests |-> "none"]
    /\ resp_log = [c \in Requests |-> <<>>]
    /\ by_client = [t \in Tasks |-> "none"]
    /\ g_pc = "idle"
    /\ g_which = "none"
    /\ g_arg = "None"
    /\ g_cursor = "None"
    /\ g_requests = <<>>
    /\ g_pages = <<>>
    /\ g_todo = <<>>
    /\ g_yielded = <<>>
    /\ g_error = 0
    /\ b_pc = "idle"
    /\ b_items = <<>>
    /\ b_size = 1
    /\ b_i = 0
    /\ b_sent = <<>>
    /\ b_error = 0

\* the limiter on its own: the requests of the client stay as they are
Next ==
    \/ \E t \in LimiterTasks, e \in Endpoints, a \in Tokens : AcquireFree(t, e, a) /\ UNCHANGED ovars
    \/ \E t \in LimiterTasks, e \in Endpoints, a \in Tokens : AcquireQueued(t, e, a) /\ UNCHANGED ovars
    \/ \E t \in LimiterTasks : LockWake(t) /\ UNCHANGED ovars
    \/ \E t \in LimiterTasks : SleepWake(t) /\ UNCHANGED ovars
    \/ \E e \in Endpoints, a \in Tokens : GetCurrentRps(e, a) /\ UNCHANGED ovars
    \/ Tick /\ UNCHANGED ovars

Spec == Init /\ [][Next]_vars

\* the limiter when time goes on and the event loop resumes a task whose
\* lock or sleep is ready
FairNext ==
    \/ \E t \in FairTasks, e \in Endpoints, a \in ClientTokens :
            AcquireFree(t, e, a) /\ UNCHANGED ovars
    \/ \E t \in FairTasks, e \in Endpoints, a \in ClientTokens :
            AcquireQueued(t, e, a) /\ UNCHANGED ovars
    \/ \E t \in FairTasks : LockWake(t) /\ UNCHANGED ovars
    \/ \E t \in FairTasks : SleepWake(t) /\ UNCHANGED ovars
    \/ Tick /\ UNCHANGED ovars
    \/ SleepElapses /\ UNCHANGED ovars

SpecFair ==
    /\ Init /\ [][FairNext]_vars
    /\ \A t \in FairTasks : WF_vars(LockWake(t) /\ UNCHANGED ovars)
    /\ \A t \in FairTasks : WF_vars(SleepWake(t) /\ UNCHANGED ovars)
    /\ WF_vars(SleepElapses /\ UNCHANGED ovars)

\* the limiter with enough callers of few keys for several of them to queue
\* for the lock at once
QueueNext ==
    \/ \E t \in QueueTasks, e \in Endpoints, a \in ClientTokens :
            AcquireFree(t, e, a) /\ UNCHANGED ovars
    \/ \E t \in QueueTasks, e \in Endpoints, a \in ClientTokens :
            AcquireQueued(t, e, a) /\ UNCHANGED ovars
    \/ \E t \in QueueTasks : LockWake(t) /\ UNCHANGED ovars
    \/ \E t \in QueueTasks : SleepWake(t) /\ UNCHANGED ovars
    \/ Tick /\ UNCHANGED ovars

SpecQueue == Init /\ [][QueueNext]_vars

\* the limiter again, the keys of request_timestamps being followed
DictNext ==
    \/ \E t \in DictTasks, e \in Endpoints, a \in ClientTokens :
            AcquireFree(t, e, a) /\ Touch(KeyOf(a, e)) /\ UNCHANGED <<cvars, xvars>>
    \/ \E t \in DictTasks, e \in Endpoints, a \in ClientTokens :
            AcquireQueued(t, e, a) /\ UNCHANGED ovars
    \/ \E t \in DictTasks :
            LockWake(t) /\ Touch(KeyOf(call[t].auth_token, call[t].endpoint)) /\ UNCHANGED <<cvars, xvars>>
    \/ \E t \in DictTasks :
            SleepWake(t) /\ Touch(KeyOf(call[t].auth_token, call[t].endpoint)) /\ UNCHANGED <<cvars, xvars>>
    \/ \E e \in Endpoints, a \in Tokens :
            GetCurrentRps(e, a) /\ Touch(KeyOf(a, e)) /\ UNCHANGED <<cvars, xvars>>
    \/ Tick /\ UNCHANGED ovars

SpecDict == Init /\ [][DictNext]_vars

\* retry_request on its own, around a function that is not looked into
RetryNext ==
    \/ \E c \in Requests : RequestCall(c) /\ UNCHANGED ovars
    \/ \E c \in Requests, v \in Values : AttemptReturns(c, v) /\ UNCHANGED ovars
    \/ \E c \in Requests, status \in Statuses : AttemptRaises(c, status) /\ UNCHANGED ovars
    \/ \E c \in Requests : DelayOver(c) /\ UNCHANGED ovars
    \/ RetryTick /\ UNCHANGED ovars

SpecRetry == Init /\ [][RetryNext]_vars

\* retry_request when every attempt ends, time goes on and the event loop
\* resumes a task whose sleep is over
RetryFairNext ==
    \/ \E c \in Requests : RequestCall(c) /\ UNCHANGED ovars
    \/ \E c \in Requests : AttemptEnds(c) /\ UNCHANGED ovars
    \/ \E c \in Requests : DelayOver(c) /\ UNCHANGED ovars
    \/ DelayElapses /\ UNCHANGED ovars

SpecRetryFair ==
    /\ Init /\ [][RetryFairNext]_vars
    /\ \A c \in Requests : WF_vars(AttemptEnds(c) /\ UNCHANGED ovars)
    /\ \A c \in Requests : WF_vars(DelayOver(c) /\ UNCHANGED ovars)
    /\ WF_vars(DelayElapses /\ UNCHANGED ovars)

\* requests made through clients that share the limiter of the module
ClientNext ==
    \/ \E c \in ClientRequests, flag \in BOOLEAN, a \in ClientTokens, e \in Endpoints :
            ClientRequest(c, flag, a, e)
    \/ \E t \in ClientTasks, e \in OtherEndpoints, a \in ClientTokens :
            AcquireFree(t, e, a) /\ UNCHANGED ovars
    \/ \E t \in ClientTasks, e \in OtherEndpoints, a \in ClientTokens :
            AcquireQueued(t, e, a) /\ UNCHANGED ovars
    \/ \E c \in ClientRequests, t \in ClientTasks : ClientAcquireFree(c, t)
    \/ \E c \in ClientRequests, t \in ClientTasks : ClientAcquireQueued(c, t)
    \/ \E t \in ClientTasks : LockWake(t) /\ UNCHANGED ovars
    \/ \E t \in ClientTasks : SleepWake(t) /\ UNCHANGED ovars
    \/ \E c \in ClientRequests : ClientHttp(c)
    \/ \E c \in ClientRequests, v \in Values : ClientResponseOk(c, v)
    \/ \E c \in ClientRequests, status \in ClientStatuses : ClientResponseError(c, status)
    \/ \E c \in ClientRequests : ClientRetry(c)
    \/ ClientTick

SpecClient == Init /\ [][ClientNext]_vars

\* what the handler subsystem leaves alone
hrest == <<cvars, rt_keys, by_client, gvars, bvars>>

\* wrapper around yango_request, the responses and the error handler looked into
HandlerNext ==
    \/ \E c \in ClientRequests, h \in Handlers : HandlerRequest(c, h) /\ UNCHANGED hrest
    \/ \E c \in ClientRequests, kind \in TransportErrors :
            TransportFails(c, kind) /\ UNCHANGED hrest
    \/ \E c \in ClientRequests, status \in ResponseStatuses, json \in JsonResults :
            ProcessResponse(c, status, json) /\ UNCHANGED hrest
    \/ \E c \in ClientRequests : DelayOver(c) /\ UNCHANGED ovars
    \/ DelayElapses /\ UNCHANGED ovars

SpecHandler == Init /\ [][HandlerNext]_vars

\* what the calls of several clients leave alone
srest == <<cvars, rt_keys, hvars, gvars, bvars>>

\* the clients of one process call acquire on the limiter of the module
SharedNext ==
    \/ \E k \in ClientIds, t \in SharedTasks, e \in OtherEndpoints :
            SharedAcquireFree(k, t, e) /\ UNCHANGED srest
    \/ \E k \in ClientIds, t \in SharedTasks, e \in OtherEndpoints :
            SharedAcquireQueued(k, t, e) /\ UNCHANGED srest
    \/ \E t \in SharedTasks : LockWake(t) /\ UNCHANGED ovars
    \/ \E t \in SharedTasks : SleepWake(t) /\ UNCHANGED ovars
    \/ Tick /\ UNCHANGED ovars

SpecShared == Init /\ [][SharedNext]_vars

\* the limiter when tasks inside acquire may be cancelled, time goes on and the
\* event loop resumes the tasks that can run
CancelNext ==
    \/ \E t \in CancelTasks, e \in OtherEndpoints, a \in ClientTokens :
            AcquireFree(t, e, a) /\ UNCHANGED ovars
    \/ \E t \in CancelTasks, e \in OtherEndpoints, a \in ClientTokens :
            AcquireQueued(t, e, a) /\ UNCHANGED ovars
    \/ \E t \in CancelTasks : LockWake(t) /\ UNCHANGED ovars
    \/ \E t \in CancelTasks : SleepWake(t) /\ UNCHANGED ovars
    \/ \E t \in CancelTasks : CancelWaiting(t) /\ UNCHANGED ovars
    \/ \E t \in CancelTasks : CancelSleeping(t) /\ UNCHANGED ovars
    \/ SleepElapses /\ UNCHANGED ovars

SpecCancel ==
    /\ Init /\ [][CancelNext]_vars
    /\ \A t \in CancelTasks : WF_vars(LockWake(t) /\ UNCHANGED ovars)
    /\ \A t \in CancelTasks : WF_vars(SleepWake(t) /\ UNCHANGED ovars)
    /\ WF_vars(SleepElapses /\ UNCHANGED ovars)

\* what a generator leaves alone
grest == <<now, lvars, rvars, cvars, rt_keys, hvars, by_client, bvars>>

\* one generator, iterated to its end
PagesNext ==
    \/ \E which \in Generators, cursor \in CallerCursors :
            GenStart(which, cursor) /\ UNCHANGED grest
    \/ GenRequest /\ UNCHANGED grest
    \/ \E len \in 0..(ProductsLimit + 1), cursor \in ServerCursors :
            GenResponse(len, cursor) /\ UNCHANGED grest
    \/ \E status \in PageStatuses : GenFails(status) /\ UNCHANGED grest
    \/ GenYield /\ UNCHANGED grest
    \/ GenPageDone /\ UNCHANGED grest

SpecPages == Init /\ [][PagesNext]_vars

\* what a batched operation leaves alone
brest == <<now, lvars, rvars, cvars, rt_keys, hvars, by_client, gvars>>

\* one batched operation on any list with any batch size
BatchNext ==
    \/ \E items \in ItemLists, batch_size \in BatchSizes :
            BatchCall(items, batch_size) /\ UNCHANGED brest
    \/ BatchSend /\ UNCHANGED brest
    \/ BatchEnd /\ UNCHANGED brest
    \/ BatchOk /\ UNCHANGED brest
    \/ \E status \in BatchStatuses : BatchFails(status) /\ UNCHANGED brest

SpecBatch == Init /\ [][BatchNext]_vars

\* =================================================================== claims
Decided(t) == call[t].decided_at # NoTime
Sleeping == {t \in Tasks : pc[t] = "sleeping"}
CurrentRps(k) == get_current_rps(request_timestamps, k[2], k[1], now)

\* C1: for every key and every instant, the admissions of the key recorded in the
\* second that ends at that instant number at most max_rps. The count over
\* (t - 1 s, t] is largest when t is the instant of an admission, so those
\* instants are the ones checked.
C1_RateNeverExceeded ==
    \A k \in Keys : \A u \in Admissions(k) :
        CountIn(k, call[u].recorded - WindowMs, call[u].recorded) <= max_rps

\* the limit has bitten: a key has more admissions than max_rps, one after a wait
C1_Witness ==
    \E k \in Keys :
        /\ Cardinality(Admissions(k)) > max_rps
        /\ \E u \in Admissions(k) : call[u].wait_time > 0

\* C2: the purge / check / wait / append sequences of two calls never interleave:
\* at most one call is between its check and its append, the lock is held exactly
\* then, nothing is appended to the deque of a call that sleeps, and a call that
\* waited leaves at most max_rps admissions of its key in the second before it.
C2_DecisionsSerialized ==
    /\ Cardinality(Sleeping) <= 1
    /\ lock_locked <=> Sleeping # {}
    /\ \A t \in Sleeping :
          /\ Len(request_timestamps[call[t].key]) <= call[t].recent
          /\ \A u \in Admissions(call[t].key) : call[u].decided_at <= call[t].decided_at
    /\ \A t \in Tasks :
          (pc[t] = "done" /\ call[t].wait_time > 0) =>
              /\ call[t].after <= call[t].recent + 1
              /\ CountIn(call[t].key, call[t].recorded - WindowMs, call[t].recorded) <= max_rps

\* several callers contend for one key: one sleeps in the critical section while
\* another call for the same key queues for the lock
C2_Witness ==
    \E t, u \in Tasks :
        /\ pc[t] = "sleeping" /\ pc[u] = "lock_wait"
        /\ call[u].key = call[t].key

\* C3: an acquire for key B whose window is not full never waits for a caller of
\* another key A that sleeps until A's window has rotated.
C3_CrossKeyNeverBlocks ==
    \A t, u \in Tasks :
        ~ /\ pc[t] = "lock_wait"
          /\ pc[u] = "sleeping"
          /\ call[u].key # call[t].key
          /\ CurrentRps(call[t].key) < max_rps

\* the statuses the claims call retryable
RetryableStatuses == {429, 500}
IsRetryableFailure(o) == o.kind = "YangoRequestError" /\ o.status \in RetryableStatuses
IsTerminalFailure(o) == o.kind = "YangoRequestError" /\ o.status \notin RetryableStatuses
AllRetryableFailures(log) == \A i \in 1..Len(log) : IsRetryableFailure(log[i])

\* C4: a call whose attempts all fail with a retryable status invokes the request
\* exactly MAX_RETRIES + 1 times and then raises; attempt MAX_RETRIES + 2 is
\* never made.
C4_GivesUpAfterMaxRetriesPlusOne ==
    \A c \in Requests :
        /\ invoked[c] <= MAX_RETRIES + 1
        /\ (r_pc[c] = "raised" /\ AllRetryableFailures(r_log[c])) =>
               invoked[c] = MAX_RETRIES + 1

\* C5: an attempt that fails with a status outside (429, 500) ends the call at
\* once: the error is raised in the same step, whatever budget remains, with no
\* delay and no further invocation; on the first attempt the request has been
\* invoked exactly once.
C5_TerminalRaisedAtOnce ==
    \A c \in Requests : \A i \in 1..Len(r_log[c]) :
        IsTerminalFailure(r_log[c][i]) =>
            /\ i = Len(r_log[c])
            /\ r_pc[c] = "raised"
            /\ r_out[c] = r_log[c][i]
            /\ invoked[c] = i
            /\ retries[c] = i - 1
            /\ i = 1 => r_wake[c] = 0

\* the first attempt failed with 503 and the call raised after one invocation
C5_Witness ==
    \E c \in Requests :
        /\ r_pc[c] = "raised" /\ r_out[c].status = 503
        /\ invoked[c] = 1 /\ retries[c] = 0

\* C6: retryable failures on attempts 1..k-1 and a success on attempt k, for
\* 1 <= k <= MAX_RETRIES + 1: the call is still going after each of the k-1
\* failures, the request is invoked exactly k times, the value of attempt k is
\* returned, and nothing is attempted after it.
C6_SuccessOnAttemptK ==
    \A c \in Requests :
        LET n == Len(r_log[c]) IN
        /\ (n >= 1 /\ n <= MAX_RETRIES /\ AllRetryableFailures(r_log[c])) =>
               /\ r_pc[c] \in {"delay", "attempting"}
               /\ invoked[c] = IF r_pc[c] = "delay" THEN n ELSE n + 1
        /\ (n >= 1 /\ n <= MAX_RETRIES + 1 /\ r_log[c][n].kind = "value") =>
               /\ r_pc[c] = "returned"
               /\ invoked[c] = n
               /\ r_out[c] = r_log[c][n]
               /\ r_out[c].attempt = n
               /\ AllRetryableFailures(SubSeq(r_log[c], 1, n - 1))
        /\ r_pc[c] = "returned" => r_log[c][n].kind = "value"

\* a call returned the value of attempt MAX_RETRIES + 1, after failures with both
\* retryable statuses
C6_Witness ==
    \E c \in Requests :
        /\ r_pc[c] = "returned" /\ invoked[c] = MAX_RETRIES + 1
        /\ r_out[c].kind = "value"
        /\ \E i, j \in 1..MAX_RETRIES : r_log[c][i].status = 429 /\ r_log[c][j].status = 500

\* C7: a call that finds max_rps admissions of its key in the trailing second
\* sleeps until 1.001 s after the oldest of them (not after its own start), is
\* admitted only when that one is at least 1 s old, and records the time after
\* the sleep.
C7_WaitsForOldest ==
    \A t \in Tasks :
        (Decided(t) /\ call[t].recent >= max_rps) =>
            /\ pc[t] \in {"sleeping", "done"}
            /\ call[t].wait_time = WaitBaseMs - (call[t].decided_at - call[t].oldest_recent)
            /\ wake_at[t] = call[t].oldest_recent + WaitBaseMs
            /\ pc[t] = "sleeping" => call[t].recorded = NoTime
            /\ pc[t] = "done" =>
                  /\ call[t].recorded >= call[t].oldest_recent + WindowMs
                  /\ call[t].recorded >= wake_at[t]
                  /\ call[t].recorded > call[t].decided_at

\* a call found its window full, the oldest admission older than the call itself,
\* and was admitted after the sleep
C7_Witness ==
    \E t \in Tasks :
        /\ pc[t] = "done" /\ call[t].recent >= max_rps
        /\ call[t].oldest_recent < call[t].called_at
        /\ call[t].recorded = wake_at[t]

\* C8: a call made while no other acquire is in progress that finds fewer than
\* max_rps admissions of its key in the trailing second records the current time
\* and returns without sleeping; after max_rps such admissions within a second
\* get_current_rps returns max_rps.
C8_FreeSlotIsImmediate ==
    /\ \A t \in Tasks :
          (call[t].called_at # NoTime /\ ~call[t].queued /\ call[t].recent < max_rps) =>
              /\ pc[t] = "done"
              /\ call[t].wait_time = 0
              /\ call[t].recorded = call[t].called_at
    /\ \A k \in Keys :
          (/\ Cardinality(Admissions(k)) = max_rps
           /\ \A u \in Admissions(k) : call[u].recorded > now - WindowMs)
              => CurrentRps(k) = max_rps

\* an admission slid out of the window and the next call was immediate
C8_Witness ==
    \E t \in Tasks :
        /\ pc[t] = "done" /\ ~call[t].queued
        /\ call[t].recent = max_rps - 1
        /\ Cardinality({u \in Admissions(call[t].key) :
                            call[u].recorded <= call[t].called_at - WindowMs}) >= 1
        /\ call[t].recorded = call[t].called_at

\* the deque of a key holds admissions of that key only, get_current_rps counts
\* the admissions of its own key in the trailing second, and a call waits for a
\* window only if its own key had max_rps admissions
OwnAdmissionsOnly ==
    /\ \A k \in Keys :
          /\ CurrentRps(k) = CountIn(k, now - WindowMs, now)
          /\ \A i \in 1..Len(request_timestamps[k]) :
                \E u \in Admissions(k) : call[u].recorded = request_timestamps[k][i]
    /\ \A t \in Tasks :
          (Decided(t) /\ call[t].recent < max_rps) => call[t].wait_time = 0

\* a step changes the deque of one key at most, and when the step is a call's
\* purge or append, that key is the call's own
OneKeyPerStep ==
    \A k \in Keys :
        request_timestamps'[k] # request_timestamps[k] =>
            /\ \A k2 \in Keys \ {k} : request_timestamps'[k2] = request_timestamps[k2]
            /\ \A t \in Tasks : pc'[t] # pc[t] => call'[t].key = k

\* C9: budgets are per key: acquire and get_current_rps for one key never add,
\* remove or count timestamps of another key; after max_rps admissions of one key
\* a key that differs in the endpoint or the token is admitted without a window
\* wait, and get_current_rps counts each key on its own.
C9_BudgetsPerKey == []OwnAdmissionsOnly /\ [][OneKeyPerStep]_vars

\* two keys that differ in the token alone each hold max_rps admissions, none of
\* which waited
C9_Witness ==
    \E k1, k2 \in Keys :
        /\ k1[1] # k2[1] /\ k1[2] = k2[2]
        /\ \A k \in {k1, k2} :
              /\ CurrentRps(k) = max_rps
              /\ \A u \in Admissions(k) : call[u].wait_time = 0

\* C10 as stated: after a second without admissions for a key get_current_rps
\* returns 0, and an acquire made then is admitted without waiting and leaves
\* the count at 1.
C10_QuietKeyAdmitsAtOnce ==
    /\ \A k \in Keys : Quiet(k) => CurrentRps(k) = 0
    /\ \A t \in Tasks :
          (call[t].called_at # NoTime /\ call[t].quiet) =>
              /\ pc[t] = "done"
              /\ call[t].wait_time = 0
              /\ call[t].recorded = call[t].called_at
              /\ call[t].after = 1

\* C10 amended: ... and an acquire made then while no other acquire is in
\* progress (the lock is free and nobody queues for it) is admitted without
\* waiting and leaves the count at 1.
C10_QuietKeyAdmitsAtOnceIfLockFree ==
    /\ \A k \in Keys : Quiet(k) => CurrentRps(k) = 0
    /\ \A t \in Tasks :
          (call[t].called_at # NoTime /\ call[t].quiet /\ ~call[t].queued) =>
              /\ pc[t] = "done"
              /\ call[t].wait_time = 0
              /\ call[t].recorded = call[t].called_at
              /\ call[t].after = 1

\* a key that was full a second ago is quiet and a new call was admitted at once
C10_Witness ==
    \E t \in Tasks :
        /\ pc[t] = "done" /\ call[t].quiet /\ ~call[t].queued
        /\ Cardinality(Admissions(call[t].key)) = max_rps + 1

\* what the last attempt made so far ended with
LastOutcome(c) == r_log[c][Len(r_log[c])]

\* C11: whenever retry_request gives up, on a terminal status or with the budget
\* spent, what it raises is the error of the most recent attempt, as that
\* attempt raised it (same status and content, same attempt), never the error
\* of an earlier attempt and never another error.
C11_RaisesLastErrorUnchanged ==
    \A c \in Requests :
        r_pc[c] = "raised" =>
            /\ r_log[c] # <<>>
            /\ r_out[c] = LastOutcome(c)
            /\ r_out[c].kind = "YangoRequestError"
            /\ r_out[c].attempt = invoked[c]
            /\ r_out[c].attempt = Len(r_log[c])
            /\ \A i \in 1..(Len(r_log[c]) - 1) : r_out[c] # r_log[c][i]

\* one call gave up on a terminal status and one with the budget spent, each
\* after earlier attempts that had failed with another status
C11_Witness ==
    \E c, d \in Requests :
        /\ r_pc[c] = "raised" /\ r_out[c].status \notin RetryableStatuses
        /\ r_pc[d] = "raised" /\ r_out[d].status \in RetryableStatuses
        /\ Len(r_log[c]) > 1 /\ r_log[c][1].status # r_out[c].status
        /\ Len(r_log[d]) > 1 /\ r_log[d][1].status # r_out[d].status

\* the key a request is counted under
ClientKey(c) == <<client[c].auth_token, client[c].endpoint>>

\* C12: with should_use_rate_limiter on, every attempt of a request, the first
\* and each retry, makes its own acquire call for (auth_token, endpoint) when
\* the attempt starts and issues its HTTP call only after that acquire has
\* recorded its admission; so the key has at least as many admissions as the
\* request has issued HTTP calls, and no attempt ends without its HTTP call.
C12_EveryAttemptAcquiresFirst ==
    \A c \in ClientRequests :
        client[c].should_use_rate_limiter =>
            /\ Len(r_log[c]) <= Len(c_http[c])
            /\ Len(c_http[c]) <= Len(c_acq[c])
            /\ Len(c_acq[c]) <= invoked[c]
            /\ \A i, j \in 1..Len(c_acq[c]) : i # j => c_acq[c][i] # c_acq[c][j]
            /\ Cardinality(Admissions(ClientKey(c))) >= Len(c_http[c])
            /\ \A i \in 1..Len(c_http[c]) :
                  /\ c_http[c][i].attempt = i
                  /\ call[c_acq[c][i]].key = ClientKey(c)
                  /\ call[c_acq[c][i]].called_at = c_http[c][i].started
                  /\ call[c_acq[c][i]].recorded # NoTime
                  /\ call[c_acq[c][i]].recorded <= c_http[c][i].issued

\* a retry found the window of its key full, slept in acquire and issued its
\* HTTP call after the sleep
C12_Witness ==
    \E c \in ClientRequests :
        /\ client[c].should_use_rate_limiter
        /\ Len(c_http[c]) >= 2
        /\ call[c_acq[c][2]].wait_time > 0
        /\ c_http[c][2].issued > c_http[c][2].started

\* a request of a client that does not use the limiter has made no acquire
\* call, and each of its HTTP calls was issued as soon as the attempt started
NoLimiterNoAcquire ==
    \A c \in ClientRequests :
        (r_pc[c] # "idle" /\ ~client[c].should_use_rate_limiter) =>
            /\ c_acq[c] = <<>>
            /\ c_phase[c] # "acquiring"
            /\ \A i \in 1..Len(c_http[c]) : c_http[c][i].issued = c_http[c][i].started

\* a step taken by such a request leaves the whole limiter as it is
NoLimiterStepKeepsLimiter ==
    \A c \in ClientRequests :
        (/\ ~client'[c].should_use_rate_limiter
         /\ \/ r_pc'[c] # r_pc[c]
            \/ c_phase'[c] # c_phase[c]
            \/ c_http'[c] # c_http[c]) =>
            UNCHANGED <<request_timestamps, lock_locked, lock_waiters, pc, wake_at, call>>

\* C13: with should_use_rate_limiter false a request never calls acquire: it
\* never waits for the lock of the limiter or for a window, and none of its
\* steps changes request_timestamps (or anything else of the limiter).
C13_DisabledNeverAcquires == []NoLimiterNoAcquire /\ [][NoLimiterStepKeepsLimiter]_vars

\* a request without the limiter issued its second HTTP call while an acquire
\* for its own key was asleep holding the lock
C13_Witness ==
    \E c \in ClientRequests, t \in Tasks :
        /\ r_pc[c] # "idle" /\ ~client[c].should_use_rate_limiter
        /\ Len(c_http[c]) >= 2
        /\ pc[t] = "sleeping" /\ call[t].key = ClientKey(c)
        /\ c_http[c][2].issued >= call[t].decided_at

\* C14: acquire and get_current_rps never raise: no call ends with the
\* IndexError of reading `[0]` of an empty deque, because a call that found its
\* window full (and so reads the oldest timestamp) found at least one timestamp
\* younger than a second in it; get_current_rps has a value for every key in
\* every state; a call that was decided is asleep or has returned.
C14_LimiterNeverRaises ==
    /\ \A t \in Tasks :
          /\ pc[t] # "raised"
          /\ Decided(t) => pc[t] \in {"sleeping", "done"}
          /\ (Decided(t) /\ call[t].found >= max_rps) =>
                /\ call[t].found >= 1
                /\ call[t].oldest_recent # NoTime
                /\ call[t].wait_time = WaitBaseMs - (call[t].decided_at - call[t].oldest_recent)
    /\ \A k \in Keys : CurrentRps(k) \in 0..Len(request_timestamps[k])

\* a call read the oldest timestamp of its full window and returned after its
\* sleep, while get_current_rps has purged the window of another key to empty
C14_Witness ==
    \E t \in Tasks, k \in Keys :
        /\ pc[t] = "done" /\ call[t].found = max_rps /\ call[t].wait_time > 0
        /\ k # call[t].key
        /\ Admissions(k) # {} /\ request_timestamps[k] = <<>>

Finished(c) == r_pc[c] \in {"returned", "raised"}

\* a call that has ended has exactly one of the three outcomes, and a call that
\* has not ended has none; the attempts before the last all failed with a
\* retryable status
OneOfThreeOutcomes ==
    \A c \in Requests :
        /\ invoked[c] <= MAX_RETRIES + 2
        /\ ~Finished(c) => r_out[c] = NoOutcome
        /\ Finished(c) =>
              /\ r_log[c] # <<>> /\ r_out[c] = LastOutcome(c)
              /\ Len(r_log[c]) = invoked[c]
              /\ \A i \in 1..(Len(r_log[c]) - 1) : IsRetryableFailure(r_log[c][i])
        /\ r_pc[c] = "returned" => r_out[c].kind = "value"
        /\ r_pc[c] = "raised" =>
              \/ IsTerminalFailure(r_out[c])
              \/ IsRetryableFailure(r_out[c]) /\ Len(r_log[c]) - 1 > MAX_RETRIES

\* a call that has ended stays as it ended
FinishedIsFinal ==
    \A c \in Requests :
        Finished(c) => /\ r_pc'[c] = r_pc[c] /\ r_out'[c] = r_out[c]
                       /\ invoked'[c] = invoked[c] /\ r_log'[c] = r_log[c]

\* C15: provided each attempt ends, every call through retry_request ends after
\* finitely many attempts (at most MAX_RETRIES + 2) with exactly one of: the
\* value of a successful attempt, a terminal error raised on the attempt that
\* produced it, the last retryable error once the budget is spent; it never
\* goes on for ever and never ends with neither value nor error.
C15_RetryTerminates ==
    /\ \A c \in Requests : (r_pc[c] # "idle") ~> Finished(c)
    /\ []OneOfThreeOutcomes
    /\ [][FinishedIsFinal]_vars

\* the three outcomes, one of them after retries: a call returned on a later
\* attempt while the other had raised a retryable error with the budget spent
C15_Witness ==
    \E c, d \in Requests :
        /\ r_pc[c] = "returned" /\ Len(r_log[c]) > 1
        /\ r_pc[d] = "raised" /\ IsRetryableFailure(r_out[d])

\* acquire call t returns in this step
AcquireReturns(t) == pc[t] # "done" /\ pc'[t] = "done"

\* every timestamp the deque of k holds is younger than a second (at most a
\* second old), taken after the step
AllYounger(k) ==
    \A i \in 1..Len(request_timestamps[k]) : now - request_timestamps[k][i] < WindowMs
AllWithinWindow(k) ==
    \A i \in 1..Len(request_timestamps[k]) : now - request_timestamps[k][i] <= WindowMs

\* the deque of k is as long as the log has admissions of k in the last second
LengthIsRecentCount(k) == Len(request_timestamps[k]) = CountIn(k, now - WindowMs, now)

\* the timestamps of k younger than a second are the last entries of its deque,
\* one for each admission of the last second
YoungAtBack(k) ==
    LET n == Len(request_timestamps[k])
        m == CountIn(k, now - WindowMs, now)
    IN  /\ m <= n
        /\ \A i \in 1..n : (now - request_timestamps[k][i] < WindowMs) <=> (i > n - m)

\* C16 as stated: whenever acquire or get_current_rps returns, every timestamp
\* stored for the key is at most one second old and the stored length is the
\* number of admissions of the key in the trailing second, also right after an
\* acquire that had to wait.
C16_WindowFreshOnReturn ==
    [][/\ \A t \in Tasks :
             AcquireReturns(t) =>
                 (AllWithinWindow(call[t].key) /\ LengthIsRecentCount(call[t].key))'
       /\ \A e \in Endpoints, a \in Tokens :
             GetCurrentRps(e, a) =>
                 (AllWithinWindow(<<a, e>>) /\ LengthIsRecentCount(<<a, e>>))']_vars

\* C16 amended: whenever get_current_rps returns, and whenever acquire returns
\* without having slept, every timestamp stored for the key is younger than one
\* second and the stored length is the number of admissions of the key in the
\* trailing second; an acquire that slept appends without purging again, so
\* right after it the deque may still hold timestamps the call found, by then
\* more than a second old (max_rps + 1 entries at most), while the trailing
\* second holds max_rps admissions at most, all stored at the back of the deque.
C16_WindowFreshOnReturnUnlessSlept ==
    [][/\ \A t \in Tasks :
             AcquireReturns(t) =>
                 IF call'[t].wait_time = 0
                 THEN (AllYounger(call[t].key) /\ LengthIsRecentCount(call[t].key))'
                 ELSE /\ Len(request_timestamps'[call'[t].key]) <= call'[t].found + 1
                      /\ (CountIn(call[t].key, now - WindowMs, now))' <= max_rps
                      /\ (YoungAtBack(call[t].key))'
       /\ \A e \in Endpoints, a \in Tokens :
             GetCurrentRps(e, a) =>
                 (AllYounger(<<a, e>>) /\ LengthIsRecentCount(<<a, e>>))']_vars

\* a call that slept has returned and its deque still holds max_rps + 1
\* timestamps; get_current_rps has since purged another key that had admissions
C16_Witness ==
    \E t \in Tasks, k \in Keys :
        /\ pc[t] = "done" /\ call[t].wait_time > 0
        /\ Len(request_timestamps[call[t].key]) = max_rps + 1
        /\ k # call[t].key /\ Admissions(k) # {}
        /\ Len(request_timestamps[k]) < Cardinality(Admissions(k))

\* a step of get_current_rps that has an effect: the limiter's deques or keys
\* change while no call moves and the clock stands
ObserverStep ==
    /\ UNCHANGED <<now, pc, call, lock_locked, lock_waiters, wake_at>>
    /\ request_timestamps' # request_timestamps \/ rt_keys' # rt_keys

\* what such a step does: for one key k, the key is in the dict afterwards, the
\* deque of k lost a prefix of timestamps that were a second old or more and
\* kept the rest, all younger, no more than max_rps of them; no other deque
\* changed and no other key appeared
PurgesOneKey(k) ==
    LET old == request_timestamps[k]
        new == request_timestamps'[k]
        n == Len(old) - Len(new)
    IN  /\ rt_keys' = rt_keys \cup {k}
        /\ \A k2 \in Keys \ {k} : request_timestamps'[k2] = request_timestamps[k2]
        /\ n >= 0
        /\ new = SubSeq(old, n + 1, Len(old))
        /\ \A i \in 1..n : now - old[i] >= WindowMs
        /\ \A i \in 1..Len(new) : now - new[i] < WindowMs
        /\ Len(new) <= max_rps
        /\ k \notin rt_keys => new = <<>>

\* get_current_rps has a value between 0 and max_rps for every key, and a key
\* the dict does not hold has no timestamps and no admissions
RpsInRange ==
    \A k \in Keys :
        /\ CurrentRps(k) >= 0 /\ CurrentRps(k) <= max_rps
        /\ k \notin rt_keys => request_timestamps[k] = <<>> /\ Admissions(k) = {}

\* C17: in every reachable state get_current_rps(key) returns a value between 0
\* and max_rps, and all it changes is the deque of that key, from which it
\* removes expired timestamps (for a key never used it creates an empty deque);
\* it records no admission and leaves the deques of the other keys as they are.
C17_GetCurrentRpsOnlyPurges ==
    /\ []RpsInRange
    /\ [][ObserverStep => \E k \in Keys : PurgesOneKey(k)]_vars

\* get_current_rps has created the empty deque of a key that was never used,
\* has purged a key that had admissions, and a third key holds max_rps
C17_Witness ==
    \E k1, k2, k3 \in Keys :
        /\ k1 \in rt_keys /\ Admissions(k1) = {}
        /\ Admissions(k2) # {} /\ request_timestamps[k2] = <<>>
        /\ CurrentRps(k3) = max_rps

\* the timestamps of a deque that are younger than a second at time t
Younger(dq, t) == SelectSeq(dq, LAMBDA x : t - x < WindowMs)

\* acquire call t makes its capacity check in this step
Decides(t) == ~Decided(t) /\ (Decided(t))'

\* whatever key is purged now, what is left of its deque is every timestamp
\* younger than a second, in order, and what is gone is a prefix of timestamps
\* a second old or more; the other deques stay
PurgeIsExact ==
    \A k \in Keys :
        LET new == clean_up_old_timestamps(request_timestamps, k, now)
            n == Len(request_timestamps[k]) - Len(new[k])
        IN  /\ new[k] = Younger(request_timestamps[k], now)
            /\ new[k] = SubSeq(request_timestamps[k], n + 1, Len(request_timestamps[k]))
            /\ \A i \in 1..n : now - request_timestamps[k][i] >= WindowMs
            /\ \A k2 \in Keys \ {k} : new[k2] = request_timestamps[k2]

\* the capacity check of a call counts the purged deque, and the call leaves
\* the purged deque behind, with its own timestamp if it does not sleep
ChecksAfterPurge ==
    \A t \in Tasks :
        Decides(t) =>
            LET k == call'[t].key
                young == Younger(request_timestamps[k], now)
            IN  /\ call'[t].found = Len(young)
                /\ (call'[t].wait_time > 0) = (Len(young) >= max_rps)
                /\ request_timestamps'[k] =
                       IF call'[t].wait_time > 0 THEN young ELSE Append(young, now)

\* C18: clean_up_old_timestamps removes from the front of a key's deque exactly
\* the timestamps that are one second old or more (one second exactly counts
\* as expired) and keeps every younger one; acquire purges so before each of
\* its capacity checks.
C18_PurgeExactBeforeCheck == []PurgeIsExact /\ [][ChecksAfterPurge]_vars

\* a call found max_rps timestamps exactly one second old in its deque, purged
\* them and was admitted without sleeping
C18_Witness ==
    \E t \in Tasks :
        /\ pc[t] = "done" /\ call[t].wait_time = 0 /\ call[t].found = 0
        /\ Cardinality({u \in Admissions(call[t].key) :
                            call[u].recorded = call[t].decided_at - WindowMs}) = max_rps

\* C19: after any interleaving of acquire and get_current_rps calls the deque
\* of every key is ordered oldest first (non-decreasing from front to back) and
\* holds nothing later than the clock, so that the purge from the front, which
\* stops at the first timestamp younger than a second, leaves no expired
\* timestamp behind.
C19_WindowsOldestFirst ==
    \A k \in Keys :
        /\ \A i, j \in 1..Len(request_timestamps[k]) :
              i < j => request_timestamps[k][i] <= request_timestamps[k][j]
        /\ \A i \in 1..Len(request_timestamps[k]) : request_timestamps[k][i] <= now
        /\ \A i \in 1..Len(PopExpired(request_timestamps[k], now)) :
              now - PopExpired(request_timestamps[k], now)[i] < WindowMs

\* a deque holds timestamps of three different times, the last one appended
\* after a sleep
C19_Witness ==
    \E k \in Keys, t \in Tasks :
        /\ Len(request_timestamps[k]) >= 3
        /\ request_timestamps[k][1] < request_timestamps[k][2]
        /\ request_timestamps[k][2] < request_timestamps[k][3]
        /\ call[t].key = k /\ call[t].wait_time > 0
        /\ call[t].recorded = request_timestamps[k][3]

\* a call sleeps once at most: it starts to sleep only from its call or from
\* the queue of the lock, a sleeper goes nowhere but to its return, and a call
\* that has returned stays returned
SleepsAtMostOnce ==
    \A t \in Tasks :
        /\ (pc'[t] = "sleeping" /\ pc[t] # "sleeping") => pc[t] \in {"idle", "lock_wait"}
        /\ pc[t] = "sleeping" => pc'[t] \in {"sleeping", "done"}
        /\ pc[t] = "done" => pc'[t] = "done"

\* whoever waits for the lock waits for a sleeper or can be resumed: the lock
\* is held only by a call that sleeps, and the queue is served from its head
NoDeadlock ==
    /\ lock_locked => \E t \in Tasks : pc[t] = "sleeping"
    /\ \A t \in Tasks : pc[t] = "lock_wait" <=> \E i \in 1..Len(lock_waiters) : lock_waiters[i] = t
    /\ (lock_waiters # <<>> /\ ~lock_locked) => ENABLED LockWake(Head(lock_waiters))

\* C20: every acquire call returns in the end: with any number of callers on
\* any keys, when time goes on and tasks that can run are run, a call that
\* queues for the lock or sleeps is admitted later; no state is a deadlock, and
\* a call sleeps once at most.
C20_AcquireReturns ==
    /\ \A t \in Tasks : (pc[t] \in {"lock_wait", "sleeping"}) ~> (pc[t] = "done")
    /\ []NoDeadlock
    /\ [][SleepsAtMostOnce]_vars

\* two calls have returned after a sleep each, the second of them after it had
\* queued for the lock behind the first
C20_Witness ==
    \E t, u \in Tasks :
        /\ t # u /\ pc[t] = "done" /\ pc[u] = "done"
        /\ call[t].wait_time > 0 /\ call[u].wait_time > 0
        /\ call[u].queued /\ call[u].called_at < call[t].recorded

\* C21: callers of one key are admitted in the order in which they called
\* acquire: a call that has recorded its admission was not overtaken, every
\* earlier call of the key has recorded its own, no later than it, and so no
\* earlier call of the key is still waiting for the lock or asleep.
C21_AdmittedInCallOrder ==
    \A t, u \in Tasks :
        (t < u /\ call[u].recorded # NoTime /\ call[u].key = call[t].key) =>
            /\ pc[t] = "done"
            /\ call[t].called_at <= call[u].called_at
            /\ call[t].recorded # NoTime /\ call[t].recorded <= call[u].recorded

\* behind a call that slept for the window two calls of its key queued for
\* the lock at the same time; the sleeper and the first of the two have been
\* admitted, in that order, and the second got the lock after them
C21_Witness ==
    \E t, u, v \in Tasks :
        /\ t < u /\ u < v
        /\ call[t].key = call[u].key /\ call[u].key = call[v].key
        /\ pc[t] = "done" /\ pc[u] = "done" /\ pc[v] = "sleeping"
        /\ call[t].wait_time > 0 /\ call[u].queued /\ call[v].queued
        /\ call[v].called_at < call[t].recorded
        /\ call[u].recorded >= call[t].recorded
        /\ call[v].decided_at >= call[u].recorded

\* an attempt of call c starts in this step
AttemptStarts(c) == invoked'[c] # invoked[c]

\* an attempt starts only when none of the call is in flight: as the first one,
\* in the step of the call itself, or from the retry delay, when the attempt
\* before it has failed with a retryable status and the delay is over; a delay
\* begins in the step in which an attempt fails and lasts RETRY_DELAY from then
AttemptsInSequence ==
    \A c \in Requests :
        /\ AttemptStarts(c) =>
              /\ invoked'[c] = invoked[c] + 1
              /\ r_pc[c] \in {"idle", "delay"} /\ r_pc'[c] = "attempting"
              /\ Len(r_log[c]) = invoked[c] /\ r_log'[c] = r_log[c]
              /\ r_pc[c] = "idle" => invoked[c] = 0
              /\ r_pc[c] = "delay" =>
                    /\ IsRetryableFailure(LastOutcome(c))
                    /\ now >= r_wake[c]
        /\ (r_pc[c] = "idle" /\ r_pc'[c] # "idle") => AttemptStarts(c) /\ now' = now
        /\ (r_pc[c] # "delay" /\ r_pc'[c] = "delay") =>
              /\ r_pc[c] = "attempting"
              /\ Len(r_log'[c]) = Len(r_log[c]) + 1
              /\ r_wake'[c] = now + RetryDelayMs
        /\ (r_pc[c] = "delay" /\ r_pc'[c] = "delay") => r_wake'[c] = r_wake[c]
        /\ (r_pc[c] = "delay" /\ r_pc'[c] # "delay") => AttemptStarts(c)

\* at most one attempt of a call is in flight, and exactly then the call is
\* at `await func(...)`
OneAttemptInFlight ==
    \A c \in Requests :
        /\ invoked[c] - Len(r_log[c]) \in {0, 1}
        /\ (invoked[c] - Len(r_log[c]) = 1) <=> (r_pc[c] = "attempting")

\* C22: the attempts of one call are strictly sequential: the first starts
\* with the call, each later one starts only after the one before it has
\* failed with a retryable status and RETRY_DELAY has passed since, and two
\* attempts of one call are never in flight together.
C22_AttemptsSequential == []OneAttemptInFlight /\ [][AttemptsInSequence]_vars

\* the third attempt of a call is in flight, after two delays, the second of
\* which is over by more than it had to be
C22_Witness ==
    \E c \in Requests :
        /\ r_pc[c] = "attempting" /\ invoked[c] = 3
        /\ r_wake[c] >= 2 * RetryDelayMs
        /\ now > r_wake[c]

\* the retryable failures a call has been through that were followed by a retry
RetriedFailures(c) ==
    Cardinality({i \in 1..Len(r_log[c]) : IsRetryableFailure(r_log[c][i])})
        - (IF r_pc[c] = "raised" /\ IsRetryableFailure(r_out[c]) THEN 1 ELSE 0)

\* the counter of a call counts the retries of that call and nothing else
RetriesAreOwn ==
    \A c \in Requests :
        /\ retries[c] = RetriedFailures(c)
        /\ r_pc[c] = "idle" => retries[c] = 0
        /\ (r_pc[c] = "raised" /\ IsRetryableFailure(r_out[c])) =>
              RetriedFailures(c) = MAX_RETRIES + 1

\* a call starts with the counter at 0, and a step of one call leaves the
\* counter, the attempts and the outcome of every other call as they were
OtherCallsUntouched ==
    \A c \in Requests :
        /\ (r_pc[c] = "idle" /\ r_pc'[c] # "idle") => retries'[c] = 0
        /\ r_pc'[c] # r_pc[c] =>
              \A d \in Requests \ {c} :
                  /\ retries'[d] = retries[d] /\ invoked'[d] = invoked[d]
                  /\ r_log'[d] = r_log[d] /\ r_out'[d] = r_out[d]
                  /\ r_pc'[d] = r_pc[d] /\ r_wake'[d] = r_wake[d]

\* C23: the retry counter belongs to one call: it is 0 when the call starts,
\* it counts the retries of that call only, and calls that run together or one
\* after the other never use up or see each other's budget.
C23_RetryCounterPerCall == []RetriesAreOwn /\ [][OtherCallsUntouched]_vars

\* a call has used up its whole budget and raised; another call, made while
\* the first was retrying, is at its first retry with its own count of 1
C23_Witness ==
    \E c, d \in Requests :
        /\ c # d
        /\ r_pc[c] = "raised" /\ retries[c] = MAX_RETRIES + 1
        /\ r_pc[d] = "attempting" /\ retries[d] = 1 /\ invoked[d] = 2

\* the acquire calls a request has made
AcquiresOf(c) == {c_acq[c][i] : i \in 1..Len(c_acq[c])}
InDelay(c) == r_pc[c] = "delay"

\* a request in its delay is in no acquire call: it does not hold the lock, it
\* does not queue for it, and it has acquired once per attempt made
DelayHoldsNothing ==
    \A c \in ClientRequests :
        InDelay(c) =>
            /\ c_phase[c] = "none"
            /\ \A t \in AcquiresOf(c) : pc[t] \in {"done", "raised"}
            /\ \A i \in 1..Len(lock_waiters) : lock_waiters[i] \notin AcquiresOf(c)
            /\ lock_locked => \E t \in Sleeping : t \notin AcquiresOf(c)
            /\ UsesLimiter(c) => Len(c_acq[c]) = invoked[c]

\* during the delay of a request, an acquire called by another task is decided
\* in the step of its call when no other call holds or awaits the lock, and the
\* request calls acquire again only in an attempt that has started
DelayedCallIsAbsent ==
    \A c \in ClientRequests :
        /\ (InDelay(c) /\ InDelay(c)') =>
              /\ c_acq'[c] = c_acq[c]
              /\ \A t \in ClientTasks :
                    (pc[t] = "idle" /\ pc'[t] # "idle") =>
                        IF Sleeping = {} /\ lock_waiters = <<>>
                        THEN /\ call'[t].decided_at = now /\ ~call'[t].queued
                             /\ call'[t].found =
                                   get_current_rps(request_timestamps,
                                                   call'[t].endpoint,
                                                   call'[t].auth_token, now)
                        ELSE pc'[t] = "lock_wait"
        /\ c_acq'[c] # c_acq[c] =>
              /\ r_pc[c] = "attempting" /\ c_phase[c] = "entered"
              /\ Len(c_acq'[c]) = invoked[c]

\* C24: a request that sleeps between two attempts is outside the limiter: it
\* holds no lock and no place in the queue, the acquire calls other tasks make
\* during the delay are decided as they would be without it, and it calls
\* acquire again only when its next attempt has started.
C24_DelayOutsideLimiter == []DelayHoldsNothing /\ [][DelayedCallIsAbsent]_vars

\* while a rate-limited request is in its delay, another task called acquire for
\* the same key and was admitted without queueing
C24_Witness ==
    \E c \in ClientRequests : \E t \in ClientTasks \ AcquiresOf(c) :
        /\ InDelay(c) /\ UsesLimiter(c)
        /\ pc[t] = "done" /\ call[t].key = ClientKey(c)
        /\ call[t].called_at > r_wake[c] - RetryDelayMs
        /\ ~call[t].queued

\* the events process_yango_response logged for an attempt of a request
EventsOf(c, n, name) ==
    {i \in 1..Len(resp_log[c]) : resp_log[c][i].attempt = n /\ resp_log[c][i].ev = name}
IsOtherException(o) == o.kind \notin {"value", "YangoRequestError", "none"}

\* an attempt that ended with another exception is the last one, and its
\* exception is what the call raised; the exception of a handler that raises is
\* another exception, whatever the status
OtherExceptionsEndTheCall ==
    \A c \in ClientRequests :
        /\ \A n \in 1..Len(r_log[c]) :
              /\ IsOtherException(r_log[c][n]) =>
                    /\ n = Len(r_log[c]) /\ n = invoked[c]
                    /\ r_pc[c] = "raised" /\ r_out[c] = r_log[c][n]
              /\ (EventsOf(c, n, "handler") # {} /\ HandlerRaises(error_handler[c])) =>
                    r_log[c][n].kind = "NotImplementedError"
              /\ EventsOf(c, n, "response") = {} =>
                    r_log[c][n].kind \in TransportErrors
        /\ r_pc[c] = "delay" => LastOutcome(c).kind = "YangoRequestError"
        /\ retries[c] =
              Cardinality({n \in 1..Len(r_log[c]) : r_log[c][n].kind = "YangoRequestError"})
                  - (IF r_pc[c] = "raised" /\ r_out[c].kind = "YangoRequestError"
                     THEN 1 ELSE 0)

\* the step in which an attempt ends with another exception ends the call
OtherExceptionStep ==
    \A c \in ClientRequests :
        (Len(r_log'[c]) > Len(r_log[c]) /\ IsOtherException(r_log'[c][Len(r_log'[c])])) =>
            /\ r_pc'[c] = "raised"
            /\ retries'[c] = retries[c] /\ r_wake'[c] = r_wake[c]
            /\ invoked'[c] = invoked[c] /\ now' = now

\* C25: only YangoRequestError is retried: an attempt that ends with any other
\* exception (of the transport, of the JSON decoding, of the error handler
\* itself) ends the call at once with that exception, also when the status of
\* the response was 429 or 500.
C25_OnlyYangoRequestErrorRetried ==
    []OtherExceptionsEndTheCall /\ [][OtherExceptionStep]_vars

\* the response had a retryable status, the handler of the base class raised,
\* and the call has raised NotImplementedError after its first attempt
C25_Witness ==
    \E c \in ClientRequests :
        /\ error_handler[c] = "base" /\ r_pc[c] = "raised" /\ invoked[c] = 1
        /\ r_out[c].kind = "NotImplementedError"
        /\ \E i \in EventsOf(c, 1, "handler") :
              resp_log[c][i].status \in ERROR_STATUSES_FOR_RETRY

\* what each finished attempt of a request shows about its response
HandlerOncePerFailure ==
    \A c \in ClientRequests : \A n \in 1..Len(r_log[c]) :
        LET R == EventsOf(c, n, "response")
            H == EventsOf(c, n, "handler")
            E == EventsOf(c, n, "raise")
        IN  /\ Cardinality(R) <= 1
            /\ r_log[c][n].kind = "value" =>
                  /\ Cardinality(R) = 1 /\ H = {}
                  /\ \A i \in R : 200 <= resp_log[c][i].status /\ resp_log[c][i].status < 300
            /\ \A i \in R :
                  LET status == resp_log[c][i].status IN
                  IF 200 <= status /\ status < 300
                  THEN /\ H = {} /\ E = {}
                       /\ r_log[c][n].kind \in {"value"} \cup (JsonResults \ {"ok"})
                  ELSE /\ r_log[c][n].kind \in {"YangoRequestError", "NotImplementedError"}
                       /\ r_log[c][n].kind = "YangoRequestError" =>
                             /\ r_log[c][n].status = status
                             /\ Cardinality(E) = 1
                       /\ IF error_handler[c] = "none"
                          THEN H = {}
                          ELSE /\ Cardinality(H) = 1
                               /\ \A h \in H : /\ resp_log[c][h].status = status
                                               /\ h = i + 1
                                               /\ \A e \in E : e = h + 1

AdmittedFor(a, e) ==
    {t \in SharedTasks : /\ by_client[t] \in ClientIds
                         /\ ClientObjects[by_client[t]].auth_token = a
                         /\ call[t].endpoint = e
                         /\ call[t].recorded # NoTime}

\* the clients of one auth_token together are admitted at most max_rps times
\* on one endpoint in any second that ends at an admission
OneBudgetPerTokenAndPath ==
    \A a \in Tokens, e \in OtherEndpoints : \A u \in AdmittedFor(a, e) :
        Cardinality({t \in AdmittedFor(a, e) :
                        /\ call[t].recorded > call[u].recorded - WindowMs
                        /\ call[t].recorded <= call[u].recorded}) <= max_rps

\* the key of a call is the auth_token of its client and the path, whatever the
\* domain (and so the URL) of the client
KeyIsTokenAndPath ==
    \A t \in SharedTasks :
        by_client[t] \in ClientIds =>
            /\ call[t].key = <<ClientObjects[by_client[t]].auth_token, call[t].endpoint>>
            /\ \A u \in SharedTasks :
                  (/\ by_client[u] \in ClientIds
                   /\ ClientObjects[by_client[u]].auth_token =
                          ClientObjects[by_client[t]].auth_token
                   /\ call[u].endpoint = call[t].endpoint) => call[u].key = call[t].key

\* C27: the clients that use the limiter use the one limiter of the module:
\* two clients of the same auth_token that call the same path share one budget
\* of max_rps a second, also when their domains differ, the key being
\* (auth_token, path) and not the URL; there is no limiter of a client's own.
C27_OneSharedLimiter == OneBudgetPerTokenAndPath /\ KeyIsTokenAndPath

\* a call of one client waited for the window that calls of a client of
\* another domain and the same auth_token had filled
C27_Witness ==
    \E t, u, w \in SharedTasks :
        /\ by_client[t] = "B" /\ by_client[u] = "A" /\ by_client[w] = "A" /\ u # w
        /\ Url("A", call[u].endpoint) # Url("B", call[t].endpoint)
        /\ call[u].endpoint = call[t].endpoint /\ call[w].endpoint = call[t].endpoint
        /\ pc[t] = "done" /\ call[t].wait_time > 0
        /\ call[u].recorded # NoTime /\ call[w].recorded # NoTime
        /\ call[u].recorded <= call[t].decided_at
        /\ call[w].recorded <= call[t].decided_at

Cancelled == {t \in Tasks : pc[t] = "cancelled"}
InQueue(t) == \E i \in 1..Len(lock_waiters) : lock_waiters[i] = t

\* a cancelled call is out of the queue and has recorded nothing; the lock is
\* held only by a call that sleeps; the head of the queue of a free lock can run
CancelledLeavesNothing ==
    /\ \A t \in Cancelled : ~InQueue(t) /\ call[t].recorded = NoTime
    /\ \A k \in Keys : Len(request_timestamps[k]) <= Cardinality(Admissions(k))
    /\ \A k \in Keys : \A u \in Admissions(k) : pc[u] = "done"
    /\ lock_locked <=> Sleeping # {}
    /\ \A t \in Tasks : pc[t] = "lock_wait" <=> InQueue(t)
    /\ (lock_waiters # <<>> /\ ~lock_locked) => ENABLED LockWake(Head(lock_waiters))

\* the step that cancels a call: a sleeper releases the lock, a waiter gives up
\* its place and the others keep their order; no deque changes
CancelStep ==
    \A t \in Tasks :
        (pc[t] # "cancelled" /\ pc'[t] = "cancelled") =>
            /\ pc[t] \in {"lock_wait", "sleeping"}
            /\ request_timestamps' = request_timestamps
            /\ pc[t] = "sleeping" => ~lock_locked' /\ lock_waiters' = lock_waiters
            /\ pc[t] = "lock_wait" =>
                  /\ lock_locked' = lock_locked
                  /\ lock_waiters' = SelectSeq(lock_waiters, LAMBDA u : u # t)
                  /\ Len(lock_waiters') = Len(lock_waiters) - 1

\* C28: when the task of a call suspended in acquire is cancelled, the lock is
\* released (the call slept) or the place in the queue is given up (the call
\* waited), no timestamp is recorded for the call, the lock is never left held,
\* and the callers that remain are admitted.
C28_CancelledCallLeavesLimiter ==
    /\ []CancelledLeavesNothing
    /\ [][CancelStep]_vars
    /\ \A t \in CancelTasks :
          (pc[t] \in {"lock_wait", "sleeping"}) ~> (pc[t] \in {"done", "cancelled"})

\* a sleeper and a waiter were cancelled, and a call that queued behind both
\* has been admitted since
C28_Witness ==
    \E t, w, u \in CancelTasks :
        /\ pc[t] = "cancelled" /\ call[t].decided_at # NoTime
        /\ pc[w] = "cancelled" /\ call[w].decided_at = NoTime
        /\ t < w /\ w < u
        /\ pc[u] = "done" /\ call[u].queued
        /\ call[u].called_at <= call[t].decided_at

RECURSIVE Unconverted(_)
Unconverted(ys) ==
    IF ys = <<>> THEN <<>> ELSE <<Head(ys).data>> \o Unconverted(Tail(ys))
IsShort(page) == Len(page.items) < RequestLimit(g_which)

\* the cursors sent, the pages walked and the items yielded so far
PagesInOrder ==
    /\ Len(g_requests) - Len(g_pages) \in {0, 1}
    /\ (Len(g_requests) = Len(g_pages) + 1) <=> (g_pc \in {"waiting", "raised"})
    /\ \A i \in 1..Len(g_requests) :
          g_requests[i] = IF i = 1 THEN g_arg ELSE g_pages[i - 1].cursor
    /\ \A i \in 1..Len(g_pages) :
          IsShort(g_pages[i]) => i = Len(g_pages) /\ Len(g_requests) = i
    /\ Unconverted(g_yielded) \o g_todo = Received(g_pages)
    /\ \A i \in 1..Len(g_yielded) :
          g_yielded[i] = from_dict(g_which, Received(g_pages)[i])
    /\ g_pc = "done" =>
          /\ g_pages # <<>> /\ IsShort(g_pages[Len(g_pages)])
          /\ g_todo = <<>>
    /\ (g_pc = "request" /\ g_pages # <<>>) =>
          ~IsShort(g_pages[Len(g_pages)]) /\ g_todo = <<>>
    /\ g_pc = "raised" =>
          /\ g_error \in PageStatuses
          /\ g_todo = <<>> /\ Unconverted(g_yielded) = Received(g_pages)

\* a generator that has returned or raised does nothing more
GeneratorEnds ==
    g_pc \in {"done", "raised"} => UNCHANGED gvars

\* C29: the two generators send each page request with the cursor of the
\* previous response (the caller's cursor first), yield every item of every
\* page in order, stop right after the first page with fewer items than the
\* limit and request nothing after it; a page request that fails ends the
\* iteration with that error, the items of the earlier pages having been yielded.
C29_PagesFollowCursor == []PagesInOrder /\ [][GeneratorEnds]_vars

\* a generator called with a cursor has returned after a full page and a short
\* one, all their items yielded
C29_Witness ==
    /\ g_pc = "done" /\ g_arg = "c0" /\ Len(g_pages) = 2
    /\ Len(g_pages[1].items) = RequestLimit(g_which)
    /\ g_requests = <<"c0", g_pages[1].cursor>>
    /\ Len(g_yielded) = Len(g_pages[1].items) + Len(g_pages[2].items)
    /\ Len(g_pages[2].items) > 0

RECURSIVE Concat(_)
Concat(ss) == IF ss = <<>> THEN <<>> ELSE Head(ss) \o Concat(Tail(ss))

\* what batch_items yields for the list and the size of the operation
SlicesAreThePartition ==
    LET bs == batch_items(b_items, b_size) IN
        /\ Concat(bs) = b_items
        /\ \A j \in 1..Len(bs) :
              /\ bs[j] # <<>>
              /\ Len(bs[j]) <= b_size
              /\ j < Len(bs) => Len(bs[j]) = b_size
        /\ b_items = <<>> <=> bs = <<>>

\* the requests sent are the first slices, in order; all of them when the
\* operation returned, up to the failing one when it raised
SlicesSentInOrder ==
    LET bs == batch_items(b_items, b_size) IN
        /\ Len(b_sent) <= Len(bs)
        /\ b_sent = SubSeq(bs, 1, Len(b_sent))
        /\ b_pc = "done" => b_sent = bs
        /\ b_pc = "raised" => b_sent # <<>> /\ b_error \in BatchStatuses
        /\ b_pc = "waiting" => b_sent # <<>>

\* an operation that raised sends nothing more
BatchStopsAtFailure ==
    b_pc \in {"raised", "done"} => UNCHANGED bvars

\* C30: for any list and batch_size >= 1 batch_items yields consecutive slices
\* whose concatenation is the list, each non-empty and of at most batch_size
\* items (all but the last of exactly batch_size), none for the empty list; a
\* batched operation sends one request per slice in that order and stops at the
\* first slice whose request fails, the later slices unsent.
C30_BatchesPartitionAndStop ==
    /\ [](SlicesAreThePartition /\ SlicesSentInOrder)
    /\ [][BatchStopsAtFailure]_vars

\* an operation on a list of three slices, the last one shorter, raised at its
\* second request: two slices were sent, the third was not
C30_Witness ==
    /\ b_pc = "raised" /\ Len(b_sent) = 2
    /\ Len(batch_items(b_items, b_size)) = 3
    /\ Len(batch_items(b_items, b_size)[3]) < b_size

====
